---- MODULE Spec2Model ----
(***************************************************************************)
(* Verification model of med_a2a_omop: the QueryAgent (OMOPDatabaseAgent)  *)
(* text-to-SQL retry loop and the Orchestrator planning loop.              *)
(***************************************************************************)
EXTENDS Integers, Sequences, FiniteSets, TLC

\* ---------------------------------------------------------------- bounds
\* longest plan of arbitrary content the planner returns
MaxPlanLen == 3
\* longest plan the planner returns
LongPlanLen == 10

\* number of messages one QueryAgent run handles
MaxQuestions == 2

\* MCPClient.connect calls in one run
MaxConnects == 3

\* longest time a silent server is watched
MaxWait == 2

\* learn_from_query_execution calls made on the world model directly
MaxOutcomes == 2

\* perform_smart_discovery calls in one run
MaxDiscoveries == 2

\* call_mcp_tool calls of one agent
MaxAgentCalls == 2

\* register_mcp_server calls of one agent
MaxRegisters == 1

\* ------------------------------------------------------ program constants
max_attempts == 5
max_loops == 10

\* ------------------------------------------------ knowledge base value sets
\* tables of the world model (three of _initialize_omop_cdm_structure)
KbTables == {"person", "concept", "condition_occurrence"}

\* table_alias.lower() in table_name.lower(), for the table name an error
\* text carries: a table's name, or the alias the SQL gave it ("c" for
\* concept in the query templates)
AliasIn(table_alias, table_name) ==
    CASE table_alias = "person" -> table_name = "person"
      [] table_alias = "c" -> table_name \in {"concept", "condition_occurrence"}
      [] OTHER -> FALSE

\* (question, extracted_context["domains"]) pairs given to
\* get_comprehensive_context
ContextInputs ==
    { <<"how many patients", <<>> >>, <<"other", <<>> >>,
      <<"other", <<"Person">> >>, <<"other", <<"Condition", "Person">> >> }

\* error texts: 'Table "person" does not have a column named "foo"',
\* 'Table "c" does not have a column named "foo"', and one of another shape
PersonFooError == "Binder Error: Table person does not have a column named foo"
AliasFooError == "Binder Error: Table c does not have a column named foo"
OtherError == "binder error: x"
KbErrors == {PersonFooError, AliasFooError, OtherError}

\* the two regular expressions of _learn_from_failure and
\* _extract_lessons_from_failures applied to an error text
ParseMissingColumn(error) ==
    CASE error = PersonFooError ->
           [matched |-> TRUE, table_alias |-> "person", missing_column |-> "foo"]
      [] error = AliasFooError ->
           [matched |-> TRUE, table_alias |-> "c", missing_column |-> "foo"]
      [] OTHER ->
           [matched |-> FALSE, table_alias |-> "", missing_column |-> ""]

\* lessons, as get_comprehensive_context lists them
VerifyColumnsLesson == [kind |-> "verify_columns", column |-> ""]
ColumnLesson(c) == [kind |-> "column_missing", column |-> c]

\* SQL of a recorded outcome, as the list of its tokens
KbSqls == { <<"SELECT">>, <<"SELECT", "WHERE">>,
            <<"SELECT", "COUNT(DISTINCT", "JOIN", "WHERE">> }

\* _sql_matches_template's key phrases
KeyPhrases == {"COUNT(DISTINCT", "JOIN", "WHERE"}

\* query templates (two of _initialize_query_templates), the key phrases of
\* their SQL bodies and their domains
TemplateNames == {"count_patients_with_condition", "average_patient_age"}
TemplatePhrases(name) ==
    IF name = "count_patients_with_condition"
    THEN {"COUNT(DISTINCT", "JOIN", "WHERE"}
    ELSE {"WHERE"}
TemplateDomains(name) ==
    IF name = "count_patients_with_condition" THEN {"Condition"} ELSE {"Person"}
\* insertion order of the query_templates dict
TemplateOrder == <<"count_patients_with_condition", "average_patient_age">>

\* omop_domains: primary table and related tables
DomainNames == {"Person", "Condition"}
DomainTables(domain_name) ==
    IF domain_name = "Person"
    THEN {"person", "location", "provider", "care_site"}
    ELSE {"condition_occurrence", "person", "concept", "visit_occurrence"}

\* the interpreter's string hash seed, fixed for the life of the process,
\* decides the order in which a set of strings is iterated
HashSeeds == {0, 1}
TableIteration(seed) ==
    IF seed = 0
    THEN <<"condition_occurrence", "person", "concept", "visit_occurrence",
           "location", "provider", "care_site">>
    ELSE <<"care_site", "concept", "visit_occurrence", "person", "provider",
           "condition_occurrence", "location">>
LessonIteration(seed) ==
    IF seed = 0
    THEN <<VerifyColumnsLesson, ColumnLesson("foo")>>
    ELSE <<ColumnLesson("foo"), VerifyColumnsLesson>>

\* iterating the set S: the members of S in the order the seed gives
RECURSIVE IterateSet(_, _)
IterateSet(S, order) ==
    IF order = <<>> THEN <<>>
    ELSE IF Head(order) \in S
         THEN <<Head(order)>> \o IterateSet(S, Tail(order))
         ELSE IterateSet(S, Tail(order))

\* inputs of get_comprehensive_context
FailedAttempt(e, n) == [sql |-> <<"SELECT">>, error |-> e, attempt_number |-> n]
FailureLists ==
    { <<>>,
      <<FailedAttempt(OtherError, 1)>>,
      <<FailedAttempt(AliasFooError, 1), FailedAttempt(AliasFooError, 2)>> }

\* what the discovery query's call_tool does: raise, or return {"result": r}
\* with r not JSON, JSON without text content, a one-line text, an error
\* text of several lines, or a header line and tab-separated rows; a
\* data_type of "" is a row whose line has no such field
DiscoveryRow ==
    { [table_name |-> "person", column_name |-> "person_id", data_type |-> "INTEGER"],
      [table_name |-> "person", column_name |-> "gender", data_type |-> "INTEGER"],
      [table_name |-> "concept", column_name |-> "gender", data_type |-> ""],
      [table_name |-> "visit_occurrence", column_name |-> "person_id",
       data_type |-> "INTEGER"] }
DiscoveryResults ==
    { [kind |-> k, rows |-> <<>>] :
          k \in {"raise", "not_json", "no_content", "one_line", "error_lines"} }
    \cup { [kind |-> "table", rows |-> <<r>>] : r \in DiscoveryRow }
    \cup { [kind |-> "table", rows |-> <<r1, r2>>] :
               r1 \in DiscoveryRow, r2 \in DiscoveryRow }

NoOutcome == [kind |-> "none", success |-> FALSE, sql |-> <<>>, error |-> ""]
NoDiscovery == [kind |-> "none", returned |-> FALSE, raised |-> FALSE,
                rows |-> <<>>]
NoContext == [kind |-> "none", question |-> "", domains |-> <<>>,
              failed_attempts |-> <<>>, tables |-> <<>>, templates |-> <<>>,
              lessons |-> <<>>]

\* ------------------------------------------------------------ value sets
\* sentinel for "no value" (Python None / absent key)
None == "None"

\* question texts carried by an OMOPQueryRequest; "" is an empty question
Questions == {"q1", "q2"}

\* incoming A2A messages: a decodable request, or one perceive() cannot decode
Messages == [kind : {"request"}, question : Questions \cup {""}]
              \cup {[kind |-> "undecodable", question |-> ""]}

\* SQL text as the sequence of its significant tokens
SqlTexts == { <<"SELECT">>, <<"DROP">> }

\* what Generate (ollama_reason) does for the SQL prompt
GenerateOutcomes == [kind : {"text"}, sql : SqlTexts]
                      \cup {[kind |-> "raise", sql |-> <<>>]}

\* text of a tool result's first content item: rows, or a binder error (one
\* of the indicators "failed to execute", "error:", "binder error", "syntax
\* error") about a missing column
ResultTexts == {"rows", AliasFooError}
TextIndicator(t) == t = AliasFooError

\* what call_mcp_tool does: raise, or return {"result": r} where r is a JSON
\* string (kind "json": its isError flag and first text item), a non-JSON
\* string ("plain": the text of the tool result's only content item, and the
\* isError flag of the tool result, which MCPClient.call_tool does not pass
\* on), a falsy value ("empty") or a non-string object ("object")
ToolOutcomes ==
    [kind : {"json", "plain"}, isError : BOOLEAN, text : ResultTexts]
      \cup [kind : {"raise", "empty", "object"},
            isError : {FALSE}, text : {"rows"}]

\* ------------------------------------------------------------- variables
VARIABLES
    qaPc,          \* position of on_message_send: "idle", "reason", "execute"
    qaInExecute,   \* TRUE when reason() runs inside execute()'s try block
    memory,        \* mental_state.memory of the QueryAgent
    qaAction,      \* Action returned by reason(), pending for execute()
    qaResponse,    \* outcome of the last on_message_send
    nQuestions,    \* messages handled so far
    toolCalls,     \* call_mcp_tool invocations for the current message
    failsThisQuestion, \* executions classified failed for the current message
    genHistory,    \* <<h>>: the attempt history h seen by the first generation
    lastExec,      \* the last execution: classification, sql, error, history before
    genLessons,    \* the lessons in the context of the last generation
    lastMsg        \* kind of the message on_message_send is handling

qaVars == <<qaPc, qaInExecute, memory, qaAction, qaResponse, nQuestions,
            toolCalls, failsThisQuestion, genHistory, lastExec, genLessons,
            lastMsg>>

VARIABLES
    orchPc,        \* position of process_query: "idle", "loop", "awaiting"
    loop_i,        \* iterations of the control loop started so far
    world_model,   \* OrchestratorWorldModel: original_query, plan, executed_steps
    orchMemory,    \* mental_state.memory of the Orchestrator
    orchAction,    \* the delegate Action whose reply is awaited
    orchResult,    \* ActionResult returned by the last process_query
    generatedPlan, \* the plan as _generate_plan stored it
    delegated,     \* sub-questions sent to the QueryAgent for this question
    planCalls,     \* planning Generate calls for this question
    synthCalls,    \* synthesis Generate calls for this question
    synthInput,    \* executed_steps handed to the synthesis Generate
    lastReply,     \* the QueryAgent's last reply to a delegated step
    plannerReply,  \* kind of the planner's response for this question
    askResult,     \* what ask_single_question returned for the last question
    leftOver       \* the previous question left a plan or executed steps behind

orchVars == <<orchPc, loop_i, world_model, orchMemory, orchAction, orchResult,
              generatedPlan, delegated, planCalls, synthCalls, synthInput,
              lastReply, plannerReply, askResult, leftOver>>

VARIABLES
    servers,         \* MCPManager.servers: the names configured
    clients,         \* MCPManager.clients: per name, the stored MCPClient
    available_tools, \* MCPManager.available_tools: the tool ids
    mgrOp,           \* the manager operation in progress
    tasks,           \* per server, the position of its gathered task
    live_processes,  \* tool-server subprocesses launched and not terminated
    open_sessions,   \* ClientSessions entered and not exited
    nConnects,       \* MCPClient.connect calls so far
    waited,          \* time the request in flight has been waiting
    lastOp,          \* how the last manager operation ended
    lastConnect,     \* the last MCPClient.connect: outcome and client after
    lastDisconnect,  \* the last MCPClient.disconnect: client before and after
    lastCall,        \* the last MCPManager.call_tool
    otherCall        \* the MCPManager.call_tool of a second coroutine

mcpVars == <<servers, clients, available_tools, mgrOp, tasks, live_processes,
             open_sessions, nConnects, waited, lastOp, lastConnect,
             lastDisconnect, lastCall, otherCall>>

VARIABLES
    omop_tables,     \* per table: actual_columns, confirmed_missing_columns
    query_templates, \* per template: usage_count, success_rate, examples
    hash_seed,       \* the process's string hash seed
    nOutcomes,       \* learn_from_query_execution calls made directly
    nDiscoveries,    \* perform_smart_discovery calls so far
    reported,        \* (table, column) pairs failed outcomes have named
    lastOutcome,     \* the learn_from_query_execution call just made
    lastDiscovery,   \* the perform_smart_discovery just made: result, return
    lastContext      \* the context just built

kbVars == <<omop_tables, query_templates, hash_seed, nOutcomes, nDiscoveries,
            reported, lastOutcome, lastDiscovery, lastContext>>

VARIABLES
    mcp_initialized, \* MCPDiscoveryMixin._mcp_initialized of the agent
    async_init_done, \* OMOPDatabaseAgent._async_init has run (create())
    nAgentCalls,     \* call_mcp_tool calls so far
    nRegisters,      \* register_mcp_server calls so far
    lastAgentCall    \* the last call_mcp_tool: what it found and what it did

mixinVars == <<mcp_initialized, async_init_done, nAgentCalls, nRegisters,
               lastAgentCall>>

VARIABLES
    requests,        \* per concurrent on_message_send: position and locals
    attemptOwners    \* per record of failed_sql_attempts, the request it is of

reqVars == <<requests, attemptOwners>>

vars == <<qaVars, orchVars, mcpVars, kbVars, mixinVars, reqVars>>

NoAction == [action_type |-> "none", query |-> <<>>]
NoExec == [class |-> "none", sql |-> <<>>, error |-> "", before |-> <<>>,
           reported |-> FALSE, learned |-> "none", kind |-> "none"]
NoResponse == [kind |-> "none", error |-> "", last_error |-> "", sql |-> <<>>]

\* ------------------------------------------------------- knowledge base
\* _identify_relevant_domains: the keyword fallback
IdentifyRelevantDomains(question) ==
    IF question = "how many patients" THEN <<"Person">> ELSE <<>>

\* the tables section of the context: per domain, its tables in iteration
\* order, each once, with the discovered columns if any
RECURSIVE DescribeTables(_, _, _, _)
DescribeTables(tbls, domains, seen, seed) ==
    IF domains = <<>> THEN <<>>
    ELSE LET d == Head(domains)
             names == IF d \in DomainNames
                      THEN IterateSet({t \in DomainTables(d) :
                                          t \notin seen /\ t \in KbTables},
                                      TableIteration(seed))
                      ELSE <<>>
             described == [i \in 1..Len(names) |->
                             [name |-> names[i],
                              columns |-> tbls[names[i]].actual_columns]]
         IN  described \o DescribeTables(tbls, Tail(domains),
                                         seen \cup {names[i] : i \in 1..Len(names)},
                                         seed)

\* _find_relevant_templates: the templates of the domains, in dict order
\* (the extracted query type and concepts name no template)
FindRelevantTemplates(domains) ==
    LET hit(name) == \E i \in 1..Len(domains) : domains[i] \in TemplateDomains(name)
    IN  SelectSeq(TemplateOrder, hit)

\* the lessons one error text yields
LessonsOf(error) ==
    IF ParseMissingColumn(error).matched
    THEN {VerifyColumnsLesson, ColumnLesson(ParseMissingColumn(error).missing_column)}
    ELSE {}

\* mutant: only the general lesson, the column is not named
LessonSetGeneral(failed_attempts) ==
    IF \E i \in 1..Len(failed_attempts) :
           ParseMissingColumn(failed_attempts[i].error).matched
    THEN {VerifyColumnsLesson} ELSE {}

\* _extract_lessons_from_failures: the set the loop builds
LessonSet(failed_attempts) ==
    UNION { LessonsOf(failed_attempts[i].error) : i \in 1..Len(failed_attempts) }

\* mutant: the lessons collected in a list, one per failed attempt
ExtractLessonsFromFailuresList(failed_attempts, seed) ==
    [i \in 1..Len(failed_attempts) |->
        IF ParseMissingColumn(failed_attempts[i].error).matched
        THEN ColumnLesson(ParseMissingColumn(failed_attempts[i].error).missing_column)
        ELSE VerifyColumnsLesson]

\* _extract_lessons_from_failures: list(lessons)
ExtractLessonsFromFailures(failed_attempts, seed) ==
    IterateSet(LessonSet(failed_attempts), LessonIteration(seed))

\* get_comprehensive_context
GetComprehensiveContext(tbls, question, domains, failed_attempts, seed) ==
    LET relevant == IF domains = <<>> THEN IdentifyRelevantDomains(question)
                    ELSE domains
    IN  [kind |-> "built", question |-> question, domains |-> domains,
         failed_attempts |-> failed_attempts,
         tables |-> DescribeTables(tbls, relevant, {}, seed),
         templates |-> FindRelevantTemplates(relevant),
         lessons |-> IF failed_attempts = <<>> THEN <<>>
                     ELSE ExtractLessonsFromFailures(failed_attempts, seed)]

\* _sql_matches_template
SqlMatchesTemplate(sql, name) ==
    \A p \in KeyPhrases :
        p \in TemplatePhrases(name) => \E i \in 1..Len(sql) : sql[i] = p

\* mutant: every template counted, matching or not
LearnFromSuccessAll(tpls, sql) ==
    [n \in TemplateNames |->
        [usage_count |-> tpls[n].usage_count + 1,
         success_rate |-> IF tpls[n].success_rate < 10
                          THEN tpls[n].success_rate + 1 ELSE 10,
         examples |-> Append(tpls[n].examples, sql)]]

\* _learn_from_success: success_rate in tenths
LearnFromSuccess(tpls, sql) ==
    [n \in TemplateNames |->
        IF SqlMatchesTemplate(sql, n)
        THEN [usage_count |-> tpls[n].usage_count + 1,
              success_rate |-> IF tpls[n].success_rate < 10
                               THEN tpls[n].success_rate + 1 ELSE 10,
              examples |-> Append(tpls[n].examples, sql)]
        ELSE tpls[n]]

\* _learn_from_failure
LearnFromFailure(tbls, error) ==
    LET m == ParseMissingColumn(error) IN
    IF ~m.matched THEN tbls
    ELSE [t \in KbTables |->
            IF AliasIn(m.table_alias, t)
            THEN [tbls[t] EXCEPT !.confirmed_missing_columns =
                                     @ \cup {m.missing_column}]
            ELSE tbls[t]]

\* actual_columns[column_name] = data_type on an insertion-ordered dict
DictSet(d, k, v) ==
    IF \E i \in 1..Len(d) : d[i].column_name = k
    THEN [i \in 1..Len(d) |->
            IF d[i].column_name = k THEN [column_name |-> k, data_type |-> v]
            ELSE d[i]]
    ELSE Append(d, [column_name |-> k, data_type |-> v])

\* mutant: the table's learned facts dropped with its columns
ClearActualColumnsAndMissing(table) ==
    [actual_columns |-> <<>>, confirmed_missing_columns |-> {}]

\* self.omop_tables[table_name].actual_columns = {}
ClearActualColumns(table) == [table EXCEPT !.actual_columns = <<>>]

\* update_schema_from_discovery: row by row; the first row of a table clears
\* its actual_columns, a row with a data type writes its column
RECURSIVE UpdateSchemaFromDiscovery(_, _, _)
UpdateSchemaFromDiscovery(tbls, rows, updated) ==
    IF rows = <<>> THEN tbls
    ELSE LET row == Head(rows)
             t == row.table_name IN
         IF t \in KbTables
         THEN LET cleared == IF t \in updated THEN tbls
                             ELSE [tbls EXCEPT ![t] = ClearActualColumns(@)]
                  written == IF row.data_type # ""
                             THEN [cleared EXCEPT ![t].actual_columns =
                                       DictSet(@, row.column_name, row.data_type)]
                             ELSE cleared
              IN  UpdateSchemaFromDiscovery(written, Tail(rows),
                                            updated \cup {t})
         ELSE UpdateSchemaFromDiscovery(tbls, Tail(rows), updated)

\* perform_smart_discovery: the tables afterwards and the value returned;
\* every exception is caught, a text of one line is not a table, and the
\* lines of a longer text are taken for a header and rows whatever they say
PerformSmartDiscovery(tbls, result) ==
    CASE result.kind \in {"raise", "not_json", "no_content", "one_line"} ->
           [tables |-> tbls, returned |-> FALSE, raised |-> FALSE]
      [] result.kind = "error_lines" ->
           [tables |-> tbls, returned |-> TRUE, raised |-> FALSE]
      [] OTHER ->
           [tables |-> UpdateSchemaFromDiscovery(tbls, result.rows, {}),
            returned |-> TRUE, raised |-> FALSE]

InitKBVars ==
    /\ omop_tables = [t \in KbTables |->
                        [actual_columns |-> <<>>,
                         confirmed_missing_columns |-> {}]]
    /\ query_templates = [n \in TemplateNames |->
                            [usage_count |-> 0, success_rate |-> 0,
                             examples |-> <<>>]]
    /\ nOutcomes = 0
    /\ nDiscoveries = 0
    /\ reported = {}
    /\ lastOutcome = NoOutcome
    /\ lastDiscovery = NoDiscovery
    /\ lastContext = NoContext

\* learn_from_query_execution, as recordOutcome and execute() call it (the
\* successful_queries and failed_queries logs are never read and left out)
LearnFromQueryExecution(sql, success, error) ==
    /\ IF success
       THEN /\ query_templates' = LearnFromSuccess(query_templates, sql)
            /\ UNCHANGED <<omop_tables, reported>>
       ELSE /\ omop_tables' = IF error # "" THEN LearnFromFailure(omop_tables, error)
                              ELSE omop_tables
            /\ reported' = IF ParseMissingColumn(error).matched
                           THEN reported \cup
                                {<<ParseMissingColumn(error).table_alias,
                                   ParseMissingColumn(error).missing_column>>}
                           ELSE reported
            /\ UNCHANGED query_templates
    /\ lastOutcome' = [kind |-> "recorded", success |-> success, sql |-> sql,
                       error |-> error]
    /\ lastDiscovery' = NoDiscovery
    /\ lastContext' = NoContext

\* ------------------------------------------------------------ QueryAgent
\* perceive + learn: the question replaces current_nl_query only when the
\* message decodes; failed_sql_attempts is left as it is
Learn(mem, msg) ==
    IF msg.kind = "request"
    THEN [mem EXCEPT !.current_nl_query = msg.question]
    ELSE mem

\* the tool server says the SQL failed: the error flag of the tool result or
\* of its JSON payload, or an error text in the content
ServerReportsFailure(res) ==
    /\ res.kind \in {"json", "plain"}
    /\ (res.isError \/ TextIndicator(res.text))

\* _is_mcp_error_result: "raises" stands for the TypeError json.loads throws
\* on a non-string result
IsMcpErrorResult(res) ==
    CASE res.kind = "json"   -> res.isError \/ TextIndicator(res.text)
      [] res.kind = "plain"  -> FALSE
      [] res.kind = "empty"  -> FALSE
      [] OTHER               -> FALSE

ClassifyRaises(res) == res.kind = "object"

\* mutant: an exception of call_mcp_tool taken for a returned result
ToolCallRaisedNever(res) == FALSE

\* call_mcp_tool raises (unknown tool, malformed tool id, server not
\* connected, transport error): execute()'s except Exception takes over
ToolCallRaised(res) == res.kind = "raise"

\* _extract_error_from_result
ExtractErrorFromResult(res) == res.text

\* mutant: the ordinal taken after the append instead of before it
AttemptRecordLate(hist, sql, err) ==
    [sql |-> sql, error |-> err, attempt_number |-> Len(hist) + 2]

\* the record execute() appends to failed_sql_attempts
AttemptRecord(hist, sql, err) ==
    [sql |-> sql, error |-> err, attempt_number |-> Len(hist) + 1]

\* mutant: the give-up test off by one
MaxAttemptsReachedLate(hist) == Len(hist) > max_attempts

\* the give-up test of execute()
MaxAttemptsReached(hist) == Len(hist) >= max_attempts

InitQAVars ==
    /\ qaPc = "idle"
    /\ qaInExecute = FALSE
    /\ memory = [current_nl_query |-> None, failed_sql_attempts |-> <<>>]
    /\ qaAction = NoAction
    /\ qaResponse = NoResponse
    /\ nQuestions = 0
    /\ toolCalls = 0
    /\ failsThisQuestion = 0
    /\ genHistory = <<>>
    /\ lastExec = NoExec
    /\ genLessons = {}
    /\ lastMsg = "none"

\* on_message_send up to its first await inside reason()
OnMessageSend(msg) ==
    /\ qaPc = "idle"
    /\ nQuestions < MaxQuestions
    /\ nQuestions' = nQuestions + 1
    /\ memory' = Learn(memory, msg)
    /\ qaPc' = "reason"
    /\ qaInExecute' = FALSE
    /\ qaAction' = NoAction
    /\ qaResponse' = NoResponse
    /\ toolCalls' = 0
    /\ failsThisQuestion' = 0
    /\ genHistory' = <<>>
    /\ lastExec' = NoExec
    /\ genLessons' = {}
    /\ lastMsg' = msg.kind
    /\ UNCHANGED <<orchVars, mcpVars, kbVars>>
    /\ UNCHANGED <<mixinVars, reqVars>>

\* how on_message_send / execute end with an ActionResult
Respond(resp) ==
    /\ qaResponse' = resp
    /\ qaPc' = "idle"
    /\ qaInExecute' = FALSE
    /\ qaAction' = NoAction

\* reason(): no question -> error action; otherwise one Generate call
Reason(gen) ==
    /\ qaPc = "reason"
    /\ UNCHANGED <<orchVars, mcpVars, kbVars>>
    /\ UNCHANGED <<mixinVars, reqVars>>
    /\ UNCHANGED <<memory, nQuestions, toolCalls, failsThisQuestion, lastExec,
                   lastMsg>>
    /\ IF memory.current_nl_query \in {None, ""}
       THEN /\ qaAction' = [action_type |-> "error", query |-> <<>>]
            /\ qaPc' = "execute"
            /\ UNCHANGED <<qaInExecute, qaResponse, genHistory, genLessons>>
       ELSE /\ genHistory' = IF genHistory = <<>>
                             THEN <<memory.failed_sql_attempts>>
                             ELSE genHistory
            /\ genLessons' = LessonSet(memory.failed_sql_attempts)
            /\ IF gen.kind = "raise"
               THEN IF qaInExecute
                    THEN Respond([NoResponse EXCEPT !.kind = "tool_call_failed"])
                    ELSE Respond([NoResponse EXCEPT !.kind = "raised"])
               ELSE /\ qaAction' = [action_type |-> "call_mcp_tool",
                                    query |-> gen.sql]
                    /\ qaPc' = "execute"
                    /\ UNCHANGED <<qaInExecute, qaResponse>>

\* execute(): one call_mcp_tool, classification, bookkeeping, then either a
\* result or the recursive reason()
Execute(res) ==
    /\ qaPc = "execute"
    /\ UNCHANGED <<orchVars, mcpVars>>
    /\ UNCHANGED <<mixinVars, reqVars>>
    /\ UNCHANGED <<hash_seed, nOutcomes, nDiscoveries>>
    /\ UNCHANGED <<nQuestions, genHistory, genLessons, lastMsg>>
    /\ IF qaAction.action_type # "call_mcp_tool"
       THEN /\ Respond([NoResponse EXCEPT !.kind = "unknown_action"])
            /\ UNCHANGED <<memory, toolCalls, failsThisQuestion, lastExec>>
            /\ UNCHANGED <<omop_tables, query_templates, reported,
                           lastOutcome, lastDiscovery, lastContext>>
       ELSE
         LET sql == qaAction.query
             hist == memory.failed_sql_attempts IN
         /\ toolCalls' = toolCalls + 1
         /\ IF ToolCallRaised(res) \/ ClassifyRaises(res)
            THEN /\ Respond([NoResponse EXCEPT !.kind = "tool_call_failed"])
                 /\ lastExec' = [class |-> "raised", sql |-> sql,
                                 error |-> "", before |-> hist,
                                 reported |-> ServerReportsFailure(res),
                                 learned |-> "none", kind |-> res.kind]
                 /\ UNCHANGED <<memory, failsThisQuestion>>
                 /\ UNCHANGED <<omop_tables, query_templates, reported,
                                lastOutcome, lastDiscovery, lastContext>>
            ELSE IF IsMcpErrorResult(res)
            THEN LET err == ExtractErrorFromResult(res)
                     newHist == Append(hist, AttemptRecord(hist, sql, err)) IN
                 /\ memory' = [memory EXCEPT !.failed_sql_attempts = newHist]
                 /\ failsThisQuestion' = failsThisQuestion + 1
                 /\ LearnFromQueryExecution(sql, FALSE, err)
                 /\ lastExec' = [class |-> "failed", sql |-> sql,
                                 error |-> err, before |-> hist,
                                 reported |-> ServerReportsFailure(res),
                                 learned |-> "failure", kind |-> res.kind]
                 /\ IF MaxAttemptsReached(newHist)
                    THEN Respond([NoResponse EXCEPT !.kind = "max_attempts",
                                                    !.last_error = err])
                    ELSE /\ qaPc' = "reason"
                         /\ qaInExecute' = TRUE
                         /\ qaAction' = NoAction
                         /\ UNCHANGED qaResponse
            ELSE /\ memory' = [memory EXCEPT !.failed_sql_attempts = <<>>]
                 /\ LearnFromQueryExecution(sql, TRUE, "")
                 /\ lastExec' = [class |-> "ok", sql |-> sql,
                                 error |-> "", before |-> hist,
                                 reported |-> ServerReportsFailure(res),
                                 learned |-> "success", kind |-> res.kind]
                 /\ Respond([NoResponse EXCEPT !.kind = "data", !.sql = sql])
                 /\ UNCHANGED failsThisQuestion

NextQA ==
    \/ \E msg \in Messages : OnMessageSend(msg)
    \/ \E gen \in GenerateOutcomes : Reason(gen)
    \/ \E res \in ToolOutcomes : Execute(res)



\* ------------------------------------------------- Orchestrator value sets
\* top-level questions; "" is an empty question string
OrchQuestions == {"Q"}

\* sub-question texts a plan is made of
SubQuestions == {"A", "B"}

\* the OMOPQueryResponse payload of a successful step
StepResults == {"r1", "r2"}

\* error texts carried by a QueryAgent error payload or a JSON-RPC error
ErrorTexts == {"e1", "e2"}

\* plans the planner returns: every plan of at most MaxPlanLen steps, and the
\* alternating plans A, B, A, ... of up to LongPlanLen steps
Plans ==
    UNION {[1..n -> SubQuestions] : n \in 0..MaxPlanLen}
      \cup {[i \in 1..n |-> IF i % 2 = 1 THEN "A" ELSE "B"] : n \in 1..LongPlanLen}

\* plan is None, or a list
NonePlan == [is_none |-> TRUE, steps |-> <<>>]
ListPlan(p) == [is_none |-> FALSE, steps |-> p]

\* what the planning Generate returns: a JSON list of strings inside a json
\* fence ("fenced") or bare ("bare"), text without any [...] ("no_array"),
\* a [...] that is not JSON ("bad_json"), a list with a non-string item
\* ("not_strings"); or the call raises
PlannerResponses ==
    [kind : {"fenced", "bare"}, plan : Plans]
      \cup [kind : {"no_array", "bad_json", "not_strings", "raise"},
            plan : {<<>>}]

\* what send_message_to_agent yields
AgentReplies ==
    [kind : {"success"}, data : StepResults, error : {""}]
      \cup [kind : {"error_payload", "jsonrpc_error"},
            data : {"r1"}, error : ErrorTexts]
      \cup [kind : {"no_response", "unexpected", "exception"},
            data : {"r1"}, error : {""}]

SynthesisOutcomes == {"text", "raise"}

NoReply == [kind |-> "none", data |-> "r1", error |-> ""]
NoOrchAction == [action_type |-> "none", question |-> ""]
NoResult == [kind |-> "none", success |-> FALSE, error |-> <<"", "">>]
Failure(prefix, text) ==
    [kind |-> "failure", success |-> FALSE, error |-> <<prefix, text>>]
FinalAnswer == [kind |-> "final_answer", success |-> TRUE, error |-> <<"", "">>]

\* what ask_single_question hands back: the formatted dictionary
NoAsk == [kind |-> "none", success |-> FALSE, has_error |-> FALSE,
          error |-> <<"", "">>, answer |-> ""]

\* ActionResult.data: execute(final_answer) carries the summary parameters,
\* every failure result leaves data at None
ResultData(result) ==
    IF result.kind = "final_answer" THEN "summary" ELSE None

\* mutant: the error key written whatever the outcome
FormatFinalResultAlwaysError(result) ==
    [kind |-> "returned", success |-> result.success, has_error |-> TRUE,
     error |-> result.error, answer |-> "An error occurred: "]

\* MedA2AInterface._format_final_result, as ask_single_question and
\* MedA2AAPI.ask return it
FormatFinalResult(result) ==
    IF result.success /\ ResultData(result) # None
    THEN [kind |-> "returned", success |-> result.success,
          has_error |-> FALSE, error |-> <<"", "">>,
          answer |-> ResultData(result)]
    ELSE [kind |-> "returned", success |-> result.success,
          has_error |-> TRUE, error |-> result.error,
          answer |-> "An error occurred: "]

\* ------------------------------------------------------------ Orchestrator
\* perceive(): the source tag of an observation
PerceiveSource(obs) ==
    IF obs.type = "str" THEN "user_question"
    ELSE IF obs.type = "dict" /\ obs.has_generated_sql
         THEN "omop_agent_response"
         ELSE "unknown"

\* mutant: a step's result recorded without removing the step from the plan
UpdateNoPop(wm, source, data) ==
    CASE source = "user_question" ->
           [original_query |-> data, plan |-> NonePlan, executed_steps |-> <<>>]
      [] source = "omop_agent_response" ->
           LET truthy == ~wm.plan.is_none /\ wm.plan.steps # <<>> IN
           [wm EXCEPT
              !.executed_steps = Append(@,
                 [sub_question |-> IF truthy THEN Head(wm.plan.steps)
                                   ELSE "Unknown sub-question",
                  result |-> data])]
      [] OTHER -> wm

\* mutant: the step taken from the end of the plan
UpdatePopLast(wm, source, data) ==
    CASE source = "user_question" ->
           [original_query |-> data, plan |-> NonePlan, executed_steps |-> <<>>]
      [] source = "omop_agent_response" ->
           LET truthy == ~wm.plan.is_none /\ wm.plan.steps # <<>>
               n == Len(wm.plan.steps) IN
           [wm EXCEPT
              !.executed_steps = Append(@,
                 [sub_question |-> IF truthy THEN wm.plan.steps[n]
                                   ELSE "Unknown sub-question",
                  result |-> data]),
              !.plan = IF truthy THEN ListPlan(SubSeq(wm.plan.steps, 1, n - 1))
                       ELSE @]
      [] OTHER -> wm

\* mutant: a new question keeps the plan and the executed steps
UpdateNoReset(wm, source, data) ==
    CASE source = "user_question" -> [wm EXCEPT !.original_query = data]
      [] source = "omop_agent_response" ->
           LET truthy == ~wm.plan.is_none /\ wm.plan.steps # <<>> IN
           [wm EXCEPT
              !.executed_steps = Append(@,
                 [sub_question |-> IF truthy THEN Head(wm.plan.steps)
                                   ELSE "Unknown sub-question",
                  result |-> data]),
              !.plan = IF truthy THEN ListPlan(Tail(wm.plan.steps)) ELSE @]
      [] OTHER -> wm

\* OrchestratorWorldModel.update
Update(wm, source, data) ==
    CASE source = "user_question" ->
           [original_query |-> data, plan |-> NonePlan, executed_steps |-> <<>>]
      [] source = "omop_agent_response" ->
           LET truthy == ~wm.plan.is_none /\ wm.plan.steps # <<>> IN
           [wm EXCEPT
              !.executed_steps = Append(@,
                 [sub_question |-> IF truthy THEN Head(wm.plan.steps)
                                   ELSE "Unknown sub-question",
                  result |-> data]),
              !.plan = IF truthy THEN ListPlan(Tail(wm.plan.steps)) ELSE @]
      [] OTHER -> wm

\* OrchestratorAgent.learn: update the world model, then copy it to memory
OrchLearn(wm, obs) == Update(wm, PerceiveSource(obs), obs.data)

\* mutant: synthesis chosen as soon as one step has been executed
ReasonScenarioEager(mem) ==
    IF mem.original_query \in {None, ""} THEN "no_query"
    ELSE IF mem.plan.is_none /\ mem.executed_steps = <<>> THEN "plan"
    ELSE IF ~mem.plan.is_none /\ mem.executed_steps # <<>> THEN "synthesize"
    ELSE IF ~mem.plan.is_none /\ Len(mem.plan.steps) > 0 THEN "delegate"
    ELSE "inconsistent"

\* the branch OrchestratorAgent.reason takes
ReasonScenario(mem) ==
    IF mem.original_query \in {None, ""} THEN "no_query"
    ELSE IF mem.plan.is_none /\ mem.executed_steps = <<>> THEN "plan"
    ELSE IF ~mem.plan.is_none /\ Len(mem.plan.steps) > 0 THEN "delegate"
    ELSE IF ~mem.plan.is_none /\ Len(mem.plan.steps) = 0
            /\ mem.executed_steps # <<>> THEN "synthesize"
    ELSE "inconsistent"

\* mutant: a list with non-string items accepted as a plan
ParsePlanLenient(resp) ==
    CASE resp.kind \in {"fenced", "bare", "not_strings"} ->
           [ok |-> TRUE, plan |-> resp.plan]
      [] OTHER -> [ok |-> FALSE, plan |-> <<>>]

\* _generate_plan: the list found and decoded from the response, if any
ParsePlan(resp) ==
    CASE resp.kind \in {"fenced", "bare"} -> [ok |-> TRUE, plan |-> resp.plan]
      [] OTHER -> [ok |-> FALSE, plan |-> <<>>]

\* mutant: the loop continues after a failed step
StepFailedNever(reply) == FALSE

\* execute(delegate_to_omop_agent): does the reply make result.success false
StepFailed(reply) == reply.kind # "success"

\* the error text execute() puts in the failed ActionResult
StepError(reply) ==
    CASE reply.kind = "no_response"   -> <<"No response from OMOP Agent.", "">>
      [] reply.kind = "jsonrpc_error" -> <<"OMOP Agent Error: ", reply.error>>
      [] reply.kind = "unexpected"    ->
           <<"Unexpected response type from OMOP Agent.", "">>
      [] reply.kind = "error_payload" -> <<"", reply.error>>
      [] OTHER                        -> <<"A2A communication failed: ", "">>

\* mutant: a loop ceiling that never triggers
LoopCeilingReachedNever(i) == FALSE

\* for _ in range(max_loops): is the loop over
LoopCeilingReached(i) == i >= max_loops

InitOrchVars ==
    /\ orchPc = "idle"
    /\ loop_i = 0
    /\ world_model = [original_query |-> None, plan |-> NonePlan,
                      executed_steps |-> <<>>]
    /\ orchMemory = [original_query |-> None, plan |-> NonePlan,
                     executed_steps |-> <<>>]
    /\ orchAction = NoOrchAction
    /\ orchResult = NoResult
    /\ generatedPlan = NonePlan
    /\ delegated = <<>>
    /\ planCalls = 0
    /\ synthCalls = 0
    /\ synthInput = <<>>
    /\ lastReply = NoReply
    /\ plannerReply = "none"
    /\ askResult = NoAsk
    /\ leftOver = FALSE

\* ------------------------------------------------------ MCP value sets
\* names the MCPManager is configured with
ServerNames == {"omop_db_server", "aux"}

\* tool names as lists of ':'-free segments: <<"ns", "tool">> is "ns:tool"
ToolNames == { <<"Select_Query">>, <<"ns", "tool">> }
ToolSets == { {<<"Select_Query">>}, ToolNames }

\* tool ids as lists of ':'-free segments: <<"a", "b">> is "a:b"
ToolIds == { <<"omop_db_server">>,
             <<"omop_db_server", "Select_Query">>,
             <<"omop_db_server", "ns", "tool">>,
             <<"aux", "Select_Query">>,
             <<"ghost", "Select_Query">> }

CallArgs == {"args1", "args2"}

\* content items of a tool result: their type and the attribute named by it
TextItem == [type |-> "text", data |-> "rows"]
ImageItem == [type |-> "image", data |-> "png"]
Contents == { <<>>, <<TextItem>>, <<ImageItem>>, <<TextItem, ImageItem>> }

\* how session.call_tool ends: it raises, or returns a result with content
Replies == { [ok |-> FALSE, content |-> <<>>] }
           \cup { [ok |-> TRUE, content |-> c] : c \in Contents }
\* the replies given where the content plays no part
PlainReplies == { r \in Replies : r.content \in {<<>>, <<TextItem>>} /\
                                  (r.ok <=> r.content # <<>>) }

\* how one MCPClient.connect goes
ConnectOutcomes ==
    { [kind |-> k, tools |-> {}] :
          k \in {"launch_fail", "init_fail", "discover_fail"} }
    \cup { [kind |-> "ok", tools |-> ts] : ts \in ToolSets }

\* no entry in MCPManager.clients
NoClient == [present |-> FALSE, session |-> "none", tools |-> {}]
\* MCPClient.__init__
NewClient == [present |-> TRUE, session |-> "none", tools |-> {}]

NoTasks == [s \in ServerNames |-> "none"]
NoOp == [op |-> "none", raised |-> FALSE, results |-> NoTasks]
NoConnect == [server |-> "", outcome |-> "none", raised |-> FALSE,
              client |-> NoClient, listed |-> {}]
NoDisconnect == [server |-> "", raised |-> FALSE, before |-> NoClient,
                 after |-> NoClient]
\* what MCPClient.call_tool returned: the text, the list or the result object
NoReturn == [shape |-> "none", text |-> "", list |-> <<>>]
NoCall == [status |-> "none", id |-> <<>>, args |-> "", error |-> "",
           connected |-> FALSE, delegations |-> 0, sent |-> 0,
           tool |-> <<>>, passed |-> "", known |-> FALSE,
           content |-> <<>>, returned |-> NoReturn]

\* the on_message_send coroutines running on one QueryAgent
RequestIds == {"r1", "r2"}
\* one on_message_send: its position, the question of its message, the
\* question and the owners of the history its last SQL was generated from,
\* its call_mcp_tool calls so far and its response
NoRequest == [pc |-> "idle", question |-> None, gen_question |-> None,
              gen_owners |-> <<>>, executions |-> 0, response |-> "none"]

NoAgentCall == [kind |-> "none", server |-> "", configured |-> FALSE,
                connected_before |-> FALSE, lost_before |-> FALSE,
                initialized_before |-> FALSE, connect_attempted |-> FALSE,
                relaunched |-> {}]

\* ------------------------------------------------------------------ MCP
\* mutant: an error closing the session escapes disconnect
DisconnectClientRaising(client, close_error) ==
    IF client.session = "open" /\ close_error
    THEN [client |-> client, raised |-> TRUE]
    ELSE [client |-> [client EXCEPT !.session = "none", !.tools = {}],
          raised |-> FALSE]

\* MCPClient.disconnect: errors of session.__aexit__ are logged, the session
\* is dropped and the tools are cleared; the subprocess is not touched
DisconnectClient(client, close_error) ==
    [client |-> [client EXCEPT !.session = "none", !.tools = {}],
     raised |-> FALSE]

\* sessions closed by one disconnect
SessionsClosed(client) == IF client.session = "open" THEN 1 ELSE 0

\* MCPClient.connect on a fresh client: the client afterwards, whether it
\* raised, subprocesses left running, sessions left open
ClientConnect(outcome, close_error) ==
    LET opened == [NewClient EXCEPT !.session = "open"] IN
    CASE outcome.kind = "launch_fail" ->
           [client |-> NewClient, raised |-> TRUE,
            processes |-> 0, sessions |-> 0]
      [] outcome.kind = "init_fail" ->
           LET d == DisconnectClient(opened, close_error) IN
           [client |-> d.client, raised |-> TRUE,
            processes |-> 1, sessions |-> 1 - SessionsClosed(opened)
                                            + SessionsClosed(d.client)]
      [] outcome.kind = "discover_fail" ->
           [client |-> opened, raised |-> TRUE,
            processes |-> 1, sessions |-> 1]
      [] OTHER ->
           [client |-> [opened EXCEPT !.tools = outcome.tools],
            raised |-> FALSE, processes |-> 1, sessions |-> 1]

\* mutant: the client's tools added to what the registry holds
UpdateToolRegistryAdditive(registry, server_name, client) ==
    registry \cup { <<server_name>> \o t : t \in client.tools }

\* _update_tool_registry: the server's old ids out, the client's tools in
UpdateToolRegistry(registry, server_name, client) ==
    { id \in registry : id[1] # server_name }
    \cup { <<server_name>> \o t : t \in client.tools }

\* mutant: an id without ':' read as a server name with an empty tool name
SplitToolIdBare(tool_id) ==
    [ok |-> TRUE, server_name |-> tool_id[1], tool_name |-> Tail(tool_id)]

\* tool_id.split(":", 1) and the length test
SplitToolId(tool_id) ==
    IF Len(tool_id) < 2
    THEN [ok |-> FALSE, server_name |-> "", tool_name |-> <<>>]
    ELSE [ok |-> TRUE, server_name |-> tool_id[1],
          tool_name |-> Tail(tool_id)]

\* mutant: a single text item wrapped in a list like any other content
ExtractContentAlwaysList(content) ==
    IF content # <<>>
    THEN [NoReturn EXCEPT !.shape = "list", !.list = content]
    ELSE [NoReturn EXCEPT !.shape = "result"]

\* MCPClient.call_tool after the await: a single text item gives its text,
\* other non-empty content the list of {type, data}, no content the result
ExtractContent(content) ==
    IF content # <<>>
    THEN IF Len(content) = 1 /\ content[1].type = "text"
         THEN [NoReturn EXCEPT !.shape = "text", !.text = content[1].data]
         ELSE [NoReturn EXCEPT !.shape = "list", !.list = content]
    ELSE [NoReturn EXCEPT !.shape = "result"]

\* self.clients.get(server_name)
ClientOf(cl, server_name) ==
    IF server_name \in ServerNames THEN cl[server_name] ELSE NoClient

\* MCPManager.call_tool down to MCPClient.call_tool's await
ManagerCallTool(cl, tool_id, args) ==
    LET parts == SplitToolId(tool_id)
        client == ClientOf(cl, parts.server_name)
        base == [NoCall EXCEPT !.id = tool_id, !.args = args,
                               !.connected = client.present
                                             /\ client.session = "open",
                               !.known = parts.tool_name \in client.tools]
    IN  CASE ~parts.ok ->
               [base EXCEPT !.status = "failed", !.error = "invalid_tool_id"]
          [] ~client.present ->
               [base EXCEPT !.status = "failed",
                            !.error = "server_not_connected"]
          [] client.session # "open" ->
               [base EXCEPT !.status = "failed",
                            !.error = "client_not_connected",
                            !.delegations = 1,
                            !.tool = parts.tool_name, !.passed = args]
          [] parts.tool_name \notin client.tools ->
               [base EXCEPT !.status = "failed", !.error = "tool_not_found",
                            !.delegations = 1,
                            !.tool = parts.tool_name, !.passed = args]
          [] OTHER ->
               [base EXCEPT !.status = "in_flight", !.delegations = 1,
                            !.sent = 1,
                            !.tool = parts.tool_name, !.passed = args]

\* asyncio.gather(..., return_exceptions=True) has every result
GatherDone(t) ==
    \A s \in ServerNames : t[s] \in {"none", "done", "failed"}

\* mutant: a failed connection makes _connect_all raise
OpRaisedAny(op, t) == \E s \in ServerNames : t[s] = "failed"

\* does the manager operation raise: _connect_all only logs the exceptions,
\* register_server lets _connect_server's exception through
OpRaised(op, t) ==
    /\ op = "register"
    /\ \E s \in ServerNames : t[s] = "failed"

InitMCPVars ==
    /\ servers \in { {"omop_db_server"}, ServerNames }
    /\ clients = [s \in ServerNames |-> NoClient]
    /\ available_tools = {}
    /\ mgrOp = "idle"
    /\ tasks = NoTasks
    /\ live_processes = 0
    /\ open_sessions = 0
    /\ nConnects = 0
    /\ waited = 0
    /\ lastOp = NoOp
    /\ lastConnect = NoConnect
    /\ lastDisconnect = NoDisconnect
    /\ lastCall = NoCall
    /\ otherCall = NoCall

InitMixinVars ==
    /\ mcp_initialized = FALSE
    /\ async_init_done = FALSE
    /\ nAgentCalls = 0
    /\ nRegisters = 0
    /\ lastAgentCall = NoAgentCall

InitReqVars ==
    /\ requests = [r \in RequestIds |-> NoRequest]
    /\ attemptOwners = <<>>

\* the QueryAgent, Orchestrator and MCP operations show no iteration order
\* of a set: their specifications start from one seed
Init ==
    /\ InitQAVars /\ InitOrchVars /\ InitMCPVars /\ InitKBVars
    /\ InitMixinVars /\ InitReqVars
    /\ hash_seed = 0

\* the process starts with any seed
InitAnySeed ==
    /\ InitQAVars /\ InitOrchVars /\ InitMCPVars /\ InitKBVars
    /\ InitMixinVars /\ InitReqVars
    /\ hash_seed \in HashSeeds

\* process_query returns
OrchReturn(result) ==
    /\ orchResult' = result
    /\ askResult' = FormatFinalResult(result)
    /\ orchPc' = "idle"
    /\ orchAction' = NoOrchAction

\* process_query entry: perceive the question, learn, enter the loop
ProcessQuery(q) ==
    /\ orchPc = "idle"
    /\ LET wm == OrchLearn(world_model,
                           [type |-> "str", has_generated_sql |-> FALSE,
                            data |-> q]) IN
       /\ world_model' = wm
       /\ orchMemory' = wm
    /\ orchPc' = "loop"
    /\ loop_i' = 0
    /\ orchAction' = NoOrchAction
    /\ orchResult' = NoResult
    /\ generatedPlan' = NonePlan
    /\ delegated' = <<>>
    /\ planCalls' = 0
    /\ synthCalls' = 0
    /\ synthInput' = <<>>
    /\ lastReply' = NoReply
    /\ plannerReply' = "none"
    /\ askResult' = NoAsk
    /\ leftOver' = (~world_model.plan.is_none
                    \/ world_model.executed_steps # <<>>)
    /\ UNCHANGED <<qaVars, mcpVars, kbVars>>
    /\ UNCHANGED <<mixinVars, reqVars>>

\* the for loop is exhausted
LoopCeiling ==
    /\ orchPc = "loop"
    /\ LoopCeilingReached(loop_i)
    /\ OrchReturn(Failure("Agent exceeded maximum execution loops.", ""))
    /\ UNCHANGED <<loop_i, world_model, orchMemory, generatedPlan, delegated,
                   planCalls, synthCalls, synthInput, lastReply, plannerReply>>
    /\ UNCHANGED leftOver
    /\ UNCHANGED <<qaVars, mcpVars, kbVars>>
    /\ UNCHANGED <<mixinVars, reqVars>>

\* an iteration in which reason() returns an error action
ReasonError ==
    /\ orchPc = "loop"
    /\ ~LoopCeilingReached(loop_i)
    /\ ReasonScenario(orchMemory) \in {"no_query", "inconsistent"}
    /\ loop_i' = loop_i + 1
    /\ OrchReturn(IF ReasonScenario(orchMemory) = "no_query"
                  THEN Failure("No user query found.", "")
                  ELSE Failure("Orchestrator is in an inconsistent state.", ""))
    /\ UNCHANGED <<world_model, orchMemory, generatedPlan, delegated,
                   planCalls, synthCalls, synthInput, lastReply, plannerReply>>
    /\ UNCHANGED leftOver
    /\ UNCHANGED <<qaVars, mcpVars, kbVars>>
    /\ UNCHANGED <<mixinVars, reqVars>>

\* an iteration in which reason() plans: _generate_plan, then for a valid
\* plan execute(plan_generated), perceive and learn
GeneratePlan(resp) ==
    /\ orchPc = "loop"
    /\ ~LoopCeilingReached(loop_i)
    /\ ReasonScenario(orchMemory) = "plan"
    /\ loop_i' = loop_i + 1
    /\ planCalls' = planCalls + 1
    /\ plannerReply' = resp.kind
    /\ UNCHANGED <<delegated, synthCalls, synthInput, lastReply>>
    /\ UNCHANGED leftOver
    /\ UNCHANGED <<qaVars, mcpVars, kbVars>>
    /\ UNCHANGED <<mixinVars, reqVars>>
    /\ IF resp.kind = "raise"
       THEN /\ OrchReturn(Failure("An internal agent error occurred: ", ""))
            /\ UNCHANGED <<world_model, orchMemory, generatedPlan>>
       ELSE IF ParsePlan(resp).ok
       THEN LET stored == [world_model EXCEPT
                             !.plan = ListPlan(ParsePlan(resp).plan)]
                wm == OrchLearn(stored,
                                [type |-> "dict", has_generated_sql |-> FALSE,
                                 data |-> "Plan created. Now executing."]) IN
            /\ world_model' = wm
            /\ orchMemory' = wm
            /\ generatedPlan' = ListPlan(ParsePlan(resp).plan)
            /\ UNCHANGED <<orchPc, orchAction, orchResult, askResult>>
       ELSE /\ OrchReturn(Failure("Failed to generate a valid plan.", ""))
            /\ UNCHANGED <<world_model, orchMemory, generatedPlan>>

\* an iteration in which reason() delegates the head of the plan; execute()
\* sends it and awaits the reply
Delegate ==
    /\ orchPc = "loop"
    /\ ~LoopCeilingReached(loop_i)
    /\ ReasonScenario(orchMemory) = "delegate"
    /\ loop_i' = loop_i + 1
    /\ orchAction' = [action_type |-> "delegate_to_omop_agent",
                      question |-> Head(orchMemory.plan.steps)]
    /\ delegated' = Append(delegated, Head(orchMemory.plan.steps))
    /\ orchPc' = "awaiting"
    /\ UNCHANGED <<world_model, orchMemory, orchResult, askResult, generatedPlan,
                   planCalls, synthCalls, synthInput, lastReply, plannerReply>>
    /\ UNCHANGED leftOver
    /\ UNCHANGED <<qaVars, mcpVars, kbVars>>
    /\ UNCHANGED <<mixinVars, reqVars>>

\* the reply arrives: execute() finishes, process_query returns the failure
\* or perceives and learns the step's result
AgentReply(reply) ==
    /\ orchPc = "awaiting"
    /\ lastReply' = reply
    /\ UNCHANGED <<loop_i, generatedPlan, delegated, planCalls, synthCalls,
                   plannerReply,
                   synthInput>>
    /\ UNCHANGED leftOver
    /\ UNCHANGED <<qaVars, mcpVars, kbVars>>
    /\ UNCHANGED <<mixinVars, reqVars>>
    /\ IF StepFailed(reply)
       THEN /\ OrchReturn(Failure(StepError(reply)[1], StepError(reply)[2]))
            /\ UNCHANGED <<world_model, orchMemory>>
       ELSE LET wm == OrchLearn(world_model,
                                [type |-> "dict", has_generated_sql |-> TRUE,
                                 data |-> reply.data]) IN
            /\ world_model' = wm
            /\ orchMemory' = wm
            /\ orchPc' = "loop"
            /\ orchAction' = NoOrchAction
            /\ UNCHANGED <<orchResult, askResult>>

\* an iteration in which reason() synthesizes: one Generate call over the
\* executed steps, then execute(final_answer)
Synthesize(gen) ==
    /\ orchPc = "loop"
    /\ ~LoopCeilingReached(loop_i)
    /\ ReasonScenario(orchMemory) = "synthesize"
    /\ loop_i' = loop_i + 1
    /\ synthCalls' = synthCalls + 1
    /\ synthInput' = orchMemory.executed_steps
    /\ OrchReturn(IF gen = "raise"
                  THEN Failure("An internal agent error occurred: ", "")
                  ELSE FinalAnswer)
    /\ UNCHANGED <<world_model, orchMemory, generatedPlan, delegated,
                   planCalls, lastReply, plannerReply>>
    /\ UNCHANGED leftOver
    /\ UNCHANGED <<qaVars, mcpVars, kbVars>>
    /\ UNCHANGED <<mixinVars, reqVars>>

OrchStep ==
    \/ LoopCeiling
    \/ ReasonError
    \/ \E resp \in PlannerResponses : GeneratePlan(resp)
    \/ Delegate
    \/ \E reply \in AgentReplies : AgentReply(reply)
    \/ \E gen \in SynthesisOutcomes : Synthesize(gen)

NextOrch ==
    \/ \E q \in OrchQuestions \cup {""} : ProcessQuery(q)
    \/ OrchStep

\* ------------------------------------------------------- MCP operations
\* requests written to the session of server s and not yet answered
InFlight(s) ==
    Cardinality({ c \in {"first", "second"} :
                    LET call == IF c = "first" THEN lastCall ELSE otherCall
                    IN  call.status = "in_flight" /\ call.id[1] = s })

\* discover_servers / _connect_all: one _connect_server task per server
ConnectAll ==
    /\ mgrOp = "idle"
    /\ lastCall.status # "in_flight"
    /\ otherCall.status # "in_flight"
    /\ nConnects + Cardinality(servers) <= MaxConnects
    /\ mgrOp' = "connect_all"
    /\ tasks' = [s \in ServerNames |-> IF s \in servers THEN "start" ELSE "none"]
    /\ lastOp' = NoOp
    /\ UNCHANGED <<servers, clients, available_tools, live_processes,
                   open_sessions, nConnects, waited, lastConnect,
                   lastDisconnect, lastCall>>
    /\ UNCHANGED otherCall
    /\ UNCHANGED <<qaVars, orchVars, kbVars>>
    /\ UNCHANGED <<mixinVars, reqVars>>

\* register_server: the server is recorded, then _connect_server
RegisterServer(s) ==
    /\ mgrOp = "idle"
    /\ lastCall.status # "in_flight"
    /\ otherCall.status # "in_flight"
    /\ nConnects + 1 <= MaxConnects
    /\ servers' = servers \cup {s}
    /\ mgrOp' = "register"
    /\ tasks' = [NoTasks EXCEPT ![s] = "start"]
    /\ lastOp' = NoOp
    /\ UNCHANGED <<clients, available_tools, live_processes, open_sessions,
                   nConnects, waited, lastConnect, lastDisconnect, lastCall>>
    /\ UNCHANGED otherCall
    /\ UNCHANGED <<qaVars, orchVars, kbVars>>
    /\ UNCHANGED <<mixinVars, reqVars>>

\* _connect_server, first part: the existing client, if any, is disconnected
DisconnectExisting(s, close_error) ==
    /\ mgrOp \in {"connect_all", "register"}
    /\ tasks[s] = "start"
    /\ IF clients[s].present
       THEN LET d == DisconnectClient(clients[s], close_error) IN
            /\ clients' = [clients EXCEPT ![s] = d.client]
            /\ open_sessions' = open_sessions - SessionsClosed(clients[s])
                                              + SessionsClosed(d.client)
            /\ lastDisconnect' = [server |-> s, raised |-> d.raised,
                                  before |-> clients[s], after |-> d.client]
            /\ tasks' = [tasks EXCEPT
                           ![s] = IF d.raised THEN "failed" ELSE "connect"]
       ELSE /\ close_error = FALSE
            /\ tasks' = [tasks EXCEPT ![s] = "connect"]
            /\ UNCHANGED <<clients, open_sessions, lastDisconnect>>
    /\ UNCHANGED <<servers, available_tools, mgrOp, live_processes,
                   nConnects, waited, lastOp, lastConnect, lastCall>>
    /\ UNCHANGED otherCall
    /\ UNCHANGED <<qaVars, orchVars, kbVars>>
    /\ UNCHANGED <<mixinVars, reqVars>>

\* _connect_server, second part: a new client connects; on success it is
\* stored and the registry updated, on failure the exception is re-raised
ConnectNewClient(s, outcome, close_error) ==
    /\ mgrOp \in {"connect_all", "register"}
    /\ tasks[s] = "connect"
    /\ outcome.kind # "init_fail" => close_error = FALSE
    /\ LET r == ClientConnect(outcome, close_error) IN
       /\ live_processes' = live_processes + r.processes
       /\ open_sessions' = open_sessions + r.sessions
       /\ lastConnect' = [server |-> s, outcome |-> outcome.kind,
                          raised |-> r.raised, client |-> r.client,
                          listed |-> outcome.tools]
       /\ IF r.raised
          THEN /\ tasks' = [tasks EXCEPT ![s] = "failed"]
               /\ UNCHANGED <<clients, available_tools>>
          ELSE /\ tasks' = [tasks EXCEPT ![s] = "done"]
               /\ clients' = [clients EXCEPT ![s] = r.client]
               /\ available_tools' =
                      UpdateToolRegistry(available_tools, s, r.client)
    /\ lastDisconnect' =
           IF outcome.kind = "init_fail"
           THEN LET opened == [NewClient EXCEPT !.session = "open"]
                    d == DisconnectClient(opened, close_error) IN
                [server |-> s, raised |-> d.raised,
                 before |-> opened, after |-> d.client]
           ELSE lastDisconnect
    /\ nConnects' = nConnects + 1
    /\ UNCHANGED <<servers, mgrOp, waited, lastOp, lastCall>>
    /\ UNCHANGED otherCall
    /\ UNCHANGED <<qaVars, orchVars, kbVars>>
    /\ UNCHANGED <<mixinVars, reqVars>>

\* the gather of _connect_all, or register_server's await, is over
FinishConnect ==
    /\ mgrOp \in {"connect_all", "register"}
    /\ GatherDone(tasks)
    /\ lastOp' = [op |-> mgrOp, raised |-> OpRaised(mgrOp, tasks),
                  results |-> tasks]
    /\ mgrOp' = "idle"
    /\ tasks' = NoTasks
    /\ UNCHANGED <<servers, clients, available_tools, live_processes,
                   open_sessions, nConnects, waited, lastConnect,
                   lastDisconnect, lastCall>>
    /\ UNCHANGED otherCall
    /\ UNCHANGED <<qaVars, orchVars, kbVars>>
    /\ UNCHANGED <<mixinVars, reqVars>>

\* shutdown: one disconnect task per stored client
Shutdown ==
    /\ mgrOp = "idle"
    /\ lastCall.status # "in_flight"
    /\ otherCall.status # "in_flight"
    /\ mgrOp' = "shutdown"
    /\ tasks' = [s \in ServerNames |->
                   IF clients[s].present THEN "start" ELSE "none"]
    /\ lastOp' = NoOp
    /\ UNCHANGED <<servers, clients, available_tools, live_processes,
                   open_sessions, nConnects, waited, lastConnect,
                   lastDisconnect, lastCall>>
    /\ UNCHANGED otherCall
    /\ UNCHANGED <<qaVars, orchVars, kbVars>>
    /\ UNCHANGED <<mixinVars, reqVars>>

\* one of shutdown's disconnect tasks
ShutdownDisconnect(s, close_error) ==
    /\ mgrOp = "shutdown"
    /\ tasks[s] = "start"
    /\ LET d == DisconnectClient(clients[s], close_error) IN
       /\ clients' = [clients EXCEPT ![s] = d.client]
       /\ open_sessions' = open_sessions - SessionsClosed(clients[s])
                                         + SessionsClosed(d.client)
       /\ lastDisconnect' = [server |-> s, raised |-> d.raised,
                             before |-> clients[s], after |-> d.client]
       /\ tasks' = [tasks EXCEPT ![s] = IF d.raised THEN "failed" ELSE "done"]
    /\ UNCHANGED <<servers, available_tools, mgrOp, live_processes,
                   nConnects, waited, lastOp, lastConnect, lastCall>>
    /\ UNCHANGED otherCall
    /\ UNCHANGED <<qaVars, orchVars, kbVars>>
    /\ UNCHANGED <<mixinVars, reqVars>>

\* shutdown's gather is over: both dictionaries are cleared
FinishShutdown ==
    /\ mgrOp = "shutdown"
    /\ GatherDone(tasks)
    /\ clients' = [s \in ServerNames |-> NoClient]
    /\ available_tools' = {}
    /\ lastOp' = [op |-> "shutdown", raised |-> FALSE, results |-> tasks]
    /\ mgrOp' = "idle"
    /\ tasks' = NoTasks
    /\ UNCHANGED <<servers, live_processes, open_sessions, nConnects, waited,
                   lastConnect, lastDisconnect, lastCall>>
    /\ UNCHANGED otherCall
    /\ UNCHANGED <<qaVars, orchVars, kbVars>>
    /\ UNCHANGED <<mixinVars, reqVars>>

\* MCPManager.call_tool up to the request's await
CallTool(tool_id, args) ==
    /\ mgrOp = "idle"
    /\ lastCall.status # "in_flight"
    /\ lastCall' = ManagerCallTool(clients, tool_id, args)
    /\ waited' = 0
    /\ UNCHANGED <<servers, clients, available_tools, mgrOp, tasks,
                   live_processes, open_sessions, nConnects, lastOp,
                   lastConnect, lastDisconnect>>
    /\ UNCHANGED otherCall
    /\ UNCHANGED <<qaVars, orchVars, kbVars>>
    /\ UNCHANGED <<mixinVars, reqVars>>

\* the server answers: session.call_tool returns or raises
ServerReply(reply) ==
    /\ lastCall.status = "in_flight"
    /\ lastCall' = IF reply.ok
                   THEN [lastCall EXCEPT
                           !.status = "completed",
                           !.content = reply.content,
                           !.returned = ExtractContent(reply.content)]
                   ELSE [lastCall EXCEPT !.status = "failed",
                                         !.error = "server_error"]
    /\ UNCHANGED <<servers, clients, available_tools, mgrOp, tasks,
                   live_processes, open_sessions, nConnects, waited, lastOp,
                   lastConnect, lastDisconnect>>
    /\ UNCHANGED otherCall
    /\ UNCHANGED <<qaVars, orchVars, kbVars>>
    /\ UNCHANGED <<mixinVars, reqVars>>

\* a second coroutine's MCPManager.call_tool up to the request's await:
\* nothing in MCPClient.call_tool makes it wait for a request in flight
OtherCallTool(tool_id) ==
    /\ mgrOp = "idle"
    /\ otherCall.status # "in_flight"
    /\ otherCall' = ManagerCallTool(clients, tool_id, "args1")
    /\ otherCall'.status = "in_flight"
    /\ UNCHANGED <<servers, clients, available_tools, mgrOp, tasks,
                   live_processes, open_sessions, nConnects, waited, lastOp,
                   lastConnect, lastDisconnect, lastCall>>
    /\ UNCHANGED <<qaVars, orchVars, kbVars>>
    /\ UNCHANGED <<mixinVars, reqVars>>

\* the server answers the second coroutine's request, whose call returns
OtherServerReply ==
    /\ otherCall.status = "in_flight"
    /\ otherCall' = NoCall
    /\ UNCHANGED <<servers, clients, available_tools, mgrOp, tasks,
                   live_processes, open_sessions, nConnects, waited, lastOp,
                   lastConnect, lastDisconnect, lastCall>>
    /\ UNCHANGED <<qaVars, orchVars, kbVars>>
    /\ UNCHANGED <<mixinVars, reqVars>>

\* the server stays silent: the await of session.call_tool goes on
ServerSilent ==
    /\ lastCall.status = "in_flight"
    /\ waited < MaxWait
    /\ waited' = waited + 1
    /\ UNCHANGED <<servers, clients, available_tools, mgrOp, tasks,
                   live_processes, open_sessions, nConnects, lastOp,
                   lastConnect, lastDisconnect, lastCall>>
    /\ UNCHANGED otherCall
    /\ UNCHANGED <<qaVars, orchVars, kbVars>>
    /\ UNCHANGED <<mixinVars, reqVars>>

NextMCP ==
    \/ ConnectAll
    \/ \E s \in ServerNames : RegisterServer(s)
    \/ \E s \in ServerNames, e \in BOOLEAN : DisconnectExisting(s, e)
    \/ \E s \in ServerNames, o \in ConnectOutcomes, e \in BOOLEAN :
           ConnectNewClient(s, o, e)
    \/ FinishConnect
    \/ Shutdown
    \/ \E s \in ServerNames, e \in BOOLEAN : ShutdownDisconnect(s, e)
    \/ FinishShutdown
    \/ \E id \in ToolIds, a \in CallArgs : CallTool(id, a)
    \/ \E reply \in PlainReplies : ServerReply(reply)
    \/ ServerSilent
    \/ \E id \in ToolIds : OtherCallTool(id)
    \/ OtherServerReply

\* ------------------------------------------- MCPDiscoveryMixin operations
\* what the schema discovery of _async_init is given
AsyncDiscoveryResults ==
    { r \in DiscoveryResults :
        \/ r.kind \in {"raise", "error_lines"}
        \/ /\ Len(r.rows) = 1
           /\ r.rows[1].table_name = "person"
           /\ r.rows[1].column_name = "person_id" }

\* the connection outcomes given to a call that does not connect
NoOutcomes == [s \in ServerNames |-> [kind |-> "launch_fail", tools |-> {}]]

\* the tool id perform_smart_discovery calls
DiscoveryToolId == <<"omop_db_server", "Select_Query">>

\* _connect_server as a whole: the stored client afterwards, whether it
\* raised, whether a new client was stored, subprocesses launched, the
\* change in open sessions
ConnectServer(client, outcome, close_error) ==
    LET d == IF client.present THEN DisconnectClient(client, close_error)
             ELSE [client |-> client, raised |-> FALSE]
        closed == SessionsClosed(client) - SessionsClosed(d.client)
        r == ClientConnect(outcome, close_error)
    IN  IF d.raised
        THEN [client |-> d.client, raised |-> TRUE, stored |-> FALSE,
              processes |-> 0, sessions |-> 0 - closed]
        ELSE [client |-> IF r.raised THEN d.client ELSE r.client,
              raised |-> r.raised, stored |-> ~r.raised,
              processes |-> r.processes, sessions |-> r.sessions - closed]

\* the _connect_server results of one _connect_all, per configured server
ConnectAllResults(srv, cl, outs, close_error) ==
    [s \in srv |-> ConnectServer(cl[s], outs[s], close_error)]

\* the registry after the _update_tool_registry calls of the stored clients
RECURSIVE RegistryAfterConnects(_, _, _)
RegistryAfterConnects(registry, todo, res) ==
    IF todo = {} THEN registry
    ELSE LET s == CHOOSE x \in todo : TRUE IN
         RegistryAfterConnects(
             IF res[s].stored
             THEN UpdateToolRegistry(registry, s, res[s].client)
             ELSE registry,
             todo \ {s}, res)

RECURSIVE SumOver(_, _)
SumOver(f, todo) ==
    IF todo = {} THEN 0
    ELSE LET s == CHOOSE x \in todo : TRUE IN f[s] + SumOver(f, todo \ {s})

\* _connect_all applied to the manager: gather(return_exceptions=True)
\* swallows every task's exception
ApplyConnectAll(res) ==
    /\ clients' = [s \in ServerNames |->
                     IF s \in servers THEN res[s].client ELSE clients[s]]
    /\ available_tools' = RegistryAfterConnects(available_tools, servers, res)
    /\ live_processes' =
           live_processes + SumOver([s \in servers |-> res[s].processes],
                                    servers)
    /\ open_sessions' =
           open_sessions + SumOver([s \in servers |-> res[s].sessions],
                                   servers)

\* _ensure_mcp_initialized: if not self._mcp_initialized
NeedsInit(initialized) == ~initialized

\* OMOPDatabaseAgent.create: after the constructor, _async_init calls
\* mcp_manager.discover_servers() and perform_smart_discovery(mcp_manager);
\* self._mcp_initialized is not written
AsyncInit(outs, close_error, result) ==
    /\ ~async_init_done
    /\ nAgentCalls = 0
    /\ nRegisters = 0
    /\ async_init_done' = TRUE
    /\ LET res == ConnectAllResults(servers, clients, outs, close_error) IN
       ApplyConnectAll(res)
    /\ ManagerCallTool(clients', DiscoveryToolId, "args1").status
           # "in_flight" => result.kind = "raise"
    /\ omop_tables' = PerformSmartDiscovery(omop_tables, result).tables
    /\ lastAgentCall' = NoAgentCall
    /\ UNCHANGED <<mcp_initialized, nAgentCalls, nRegisters>>
    /\ UNCHANGED <<servers, mgrOp, tasks, nConnects, waited, lastOp,
                   lastConnect, lastDisconnect, lastCall, otherCall>>
    /\ UNCHANGED <<query_templates, hash_seed, nOutcomes, nDiscoveries,
                   reported, lastOutcome, lastDiscovery, lastContext>>
    /\ UNCHANGED <<qaVars, orchVars, reqVars>>

\* call_mcp_tool up to the request's await: _ensure_mcp_initialized, then
\* MCPManager.call_tool
CallMcpTool(tool_id, args, outs, close_error) ==
    /\ nAgentCalls < MaxAgentCalls
    /\ lastCall.status # "in_flight"
    /\ ~NeedsInit(mcp_initialized) => (outs = NoOutcomes /\ ~close_error)
    /\ nAgentCalls' = nAgentCalls + 1
    /\ LET init == NeedsInit(mcp_initialized)
           res == ConnectAllResults(servers, clients, outs, close_error)
           server_name == SplitToolId(tool_id).server_name
       IN  /\ IF init
              THEN /\ ApplyConnectAll(res)
                   /\ mcp_initialized' = TRUE
              ELSE UNCHANGED <<clients, available_tools, live_processes,
                               open_sessions, mcp_initialized>>
           /\ lastAgentCall' =
                  [kind |-> "call", server |-> server_name,
                   configured |-> server_name \in servers,
                   connected_before |->
                       LET c == ClientOf(clients, server_name)
                       IN  c.present /\ c.session = "open",
                   lost_before |->
                       /\ lastCall.status = "failed"
                       /\ lastCall.error = "server_error"
                       /\ lastCall.id[1] = server_name,
                   initialized_before |-> mcp_initialized,
                   connect_attempted |-> init /\ server_name \in servers,
                   relaunched |->
                       IF init
                       THEN { s \in servers :
                                /\ clients[s].present
                                /\ clients[s].session = "open"
                                /\ res[s].processes > 0 }
                       ELSE {}]
    /\ lastCall' = ManagerCallTool(clients', tool_id, args)
    /\ UNCHANGED <<async_init_done, nRegisters>>
    /\ UNCHANGED <<servers, mgrOp, tasks, nConnects, waited, lastOp,
                   lastConnect, lastDisconnect, otherCall>>
    /\ UNCHANGED <<qaVars, orchVars, kbVars, reqVars>>

\* register_mcp_server: MCPManager.register_server as a whole
RegisterMcpServer(s, outcome, close_error) ==
    /\ nRegisters < MaxRegisters
    /\ lastCall.status # "in_flight"
    /\ nRegisters' = nRegisters + 1
    /\ servers' = servers \cup {s}
    /\ LET r == ConnectServer(clients[s], outcome, close_error) IN
       /\ clients' = [clients EXCEPT ![s] = r.client]
       /\ available_tools' =
              IF r.stored THEN UpdateToolRegistry(available_tools, s, r.client)
              ELSE available_tools
       /\ live_processes' = live_processes + r.processes
       /\ open_sessions' = open_sessions + r.sessions
    /\ lastAgentCall' = NoAgentCall
    /\ UNCHANGED <<mcp_initialized, async_init_done, nAgentCalls>>
    /\ UNCHANGED <<mgrOp, tasks, nConnects, waited, lastOp, lastConnect,
                   lastDisconnect, lastCall, otherCall>>
    /\ UNCHANGED <<qaVars, orchVars, kbVars, reqVars>>

NextMixin ==
    \/ \E outs \in [ServerNames -> ConnectOutcomes], e \in BOOLEAN,
          result \in AsyncDiscoveryResults : AsyncInit(outs, e, result)
    \/ \E outs \in [ServerNames -> ConnectOutcomes], e \in BOOLEAN,
          id \in ToolIds : CallMcpTool(id, "args1", outs, e)
    \/ \E s \in ServerNames, o \in ConnectOutcomes, e \in BOOLEAN :
           RegisterMcpServer(s, o, e)
    \/ \E reply \in Replies : ServerReply(reply)

\* ------------------------------------ concurrent on_message_send calls
\* the SQL the Generate call returns to a request
ConcurrentSql == <<"SELECT">>

\* reason(self.mental_state) as one request runs it up to the tool call's
\* await: the question and the attempt history are read from the shared
\* mental state (the awaits inside reason() are taken without the other
\* request running in between)
ReasonShared(req, mem, owners) ==
    IF mem.current_nl_query \in {None, ""}
    THEN [req EXCEPT !.pc = "done", !.response = "unknown_action"]
    ELSE [req EXCEPT !.pc = "awaiting_tool",
                     !.gen_question = mem.current_nl_query,
                     !.gen_owners = owners]

\* on_message_send of request r up to the await of call_mcp_tool: perceive,
\* learn on the shared mental state, reason
ArriveConcurrent(r, q) ==
    /\ requests[r].pc = "idle"
    /\ LET mem == Learn(memory, [kind |-> "request", question |-> q]) IN
       /\ memory' = mem
       /\ requests' = [requests EXCEPT
                         ![r] = ReasonShared([@ EXCEPT !.question = q],
                                             mem, attemptOwners)]
    /\ UNCHANGED attemptOwners
    /\ UNCHANGED <<qaPc, qaInExecute, qaAction, qaResponse, nQuestions,
                   toolCalls, failsThisQuestion, genHistory, lastExec,
                   genLessons, lastMsg>>
    /\ UNCHANGED <<orchVars, mcpVars, kbVars, mixinVars>>

\* call_mcp_tool returns to request r: the rest of execute(), with the
\* recursive reason() up to the next await of call_mcp_tool
ToolReturnsConcurrent(r, res) ==
    /\ requests[r].pc = "awaiting_tool"
    /\ UNCHANGED <<qaPc, qaInExecute, qaAction, qaResponse, nQuestions,
                   toolCalls, failsThisQuestion, genHistory, lastExec,
                   genLessons, lastMsg>>
    /\ UNCHANGED <<hash_seed, nOutcomes, nDiscoveries>>
    /\ UNCHANGED <<orchVars, mcpVars, mixinVars>>
    /\ LET req == [requests[r] EXCEPT !.executions = @ + 1]
           hist == memory.failed_sql_attempts IN
       IF ToolCallRaised(res) \/ ClassifyRaises(res)
       THEN /\ requests' = [requests EXCEPT
                              ![r] = [req EXCEPT
                                        !.pc = "done",
                                        !.response = "tool_call_failed"]]
            /\ UNCHANGED <<memory, attemptOwners>>
            /\ UNCHANGED <<omop_tables, query_templates, reported,
                           lastOutcome, lastDiscovery, lastContext>>
       ELSE IF IsMcpErrorResult(res)
       THEN LET err == ExtractErrorFromResult(res)
                newHist == Append(hist,
                                  AttemptRecord(hist, ConcurrentSql, err))
                mem == [memory EXCEPT !.failed_sql_attempts = newHist]
                owners == Append(attemptOwners, r) IN
            /\ memory' = mem
            /\ attemptOwners' = owners
            /\ LearnFromQueryExecution(ConcurrentSql, FALSE, err)
            /\ requests' =
                   [requests EXCEPT
                      ![r] = IF MaxAttemptsReached(newHist)
                             THEN [req EXCEPT !.pc = "done",
                                              !.response = "max_attempts"]
                             ELSE ReasonShared(req, mem, owners)]
       ELSE /\ memory' = [memory EXCEPT !.failed_sql_attempts = <<>>]
            /\ attemptOwners' = <<>>
            /\ LearnFromQueryExecution(ConcurrentSql, TRUE, "")
            /\ requests' = [requests EXCEPT
                              ![r] = [req EXCEPT !.pc = "done",
                                                 !.response = "data"]]

NextConcurrent ==
    \/ \E r \in RequestIds, q \in Questions : ArriveConcurrent(r, q)
    \/ \E r \in RequestIds, res \in ToolOutcomes : ToolReturnsConcurrent(r, res)

\* ------------------------------------------- knowledge base operations
\* recordOutcome: learn_from_query_execution called on the world model
RecordOutcome(sql, success, error) ==
    /\ nOutcomes < MaxOutcomes
    /\ nOutcomes' = nOutcomes + 1
    /\ LearnFromQueryExecution(sql, success, error)
    /\ UNCHANGED <<hash_seed, nDiscoveries>>
    /\ UNCHANGED <<qaVars, orchVars, mcpVars>>
    /\ UNCHANGED <<mixinVars, reqVars>>

\* discover: perform_smart_discovery with what the discovery query gives
Discover(result) ==
    /\ nDiscoveries < MaxDiscoveries
    /\ nDiscoveries' = nDiscoveries + 1
    /\ LET d == PerformSmartDiscovery(omop_tables, result) IN
       /\ omop_tables' = d.tables
       /\ lastDiscovery' = [kind |-> result.kind, returned |-> d.returned,
                            raised |-> d.raised, rows |-> result.rows]
    /\ lastOutcome' = NoOutcome
    /\ lastContext' = NoContext
    /\ UNCHANGED <<query_templates, hash_seed, nOutcomes, reported>>
    /\ UNCHANGED <<qaVars, orchVars, mcpVars>>
    /\ UNCHANGED <<mixinVars, reqVars>>

\* contextFor: get_comprehensive_context; nothing of the world model changes
ContextFor(question, domains, failed_attempts) ==
    /\ lastContext' = GetComprehensiveContext(omop_tables, question, domains,
                                              failed_attempts, hash_seed)
    /\ lastOutcome' = NoOutcome
    /\ lastDiscovery' = NoDiscovery
    /\ UNCHANGED <<omop_tables, query_templates, hash_seed, nOutcomes,
                   nDiscoveries, reported>>
    /\ UNCHANGED <<qaVars, orchVars, mcpVars>>
    /\ UNCHANGED <<mixinVars, reqVars>>

NextKB ==
    \/ \E sql \in KbSqls : RecordOutcome(sql, TRUE, "")
    \/ \E sql \in KbSqls, e \in KbErrors : RecordOutcome(sql, FALSE, e)
    \/ \E result \in DiscoveryResults : Discover(result)
    \/ \E in \in ContextInputs, f \in FailureLists : ContextFor(in[1], in[2], f)

SpecQA == Init /\ [][NextQA]_vars

SpecOrch == Init /\ [][NextOrch]_vars

SpecMCP == Init /\ [][NextMCP]_vars

SpecKB == InitAnySeed /\ [][NextKB]_vars

SpecMixin == Init /\ [][NextMixin]_vars

SpecConcurrent == Init /\ [][NextConcurrent]_vars

\* every Generate and delegate call returns, so a started step completes
FairSpecOrch == SpecOrch /\ WF_vars(OrchStep)

\* ------------------------------------------------- QueryAgent properties
\* what section 4.5 of the specification calls a single read-only statement
IsSingleSelect(sql) ==
    /\ Len(sql) >= 1
    /\ sql[1] = "SELECT"
    /\ \A i \in 1..Len(sql) :
         sql[i] \notin {";", "CREATE", "UPDATE", "DELETE", "INSERT",
                        "DROP", "ALTER"}

\* C1: for one message the QueryAgent makes at most max_attempts
\* call_mcp_tool invocations, whatever history the message started with
C1_ToolCallsBounded == toolCalls <= max_attempts

C1_Witness ==
    /\ toolCalls = max_attempts
    /\ qaResponse.kind = "max_attempts"

\* C2: the max-attempts failure is reported exactly when the question's own
\* max_attempts-th consecutive failed execution has occurred, and it carries
\* that attempt's error text
C2_ExhaustedExactlyAtNthFailure ==
    /\ (qaResponse.kind = "max_attempts") <=> (failsThisQuestion = max_attempts)
    /\ qaResponse.kind = "max_attempts" =>
         qaResponse.last_error = lastExec.error

\* C3: the first SQL generation of every question sees an empty attempt
\* history
C3_FirstGenerationSeesEmptyHistory ==
    genHistory # <<>> => genHistory[1] = <<>>

C5_HistoryBounded == Len(memory.failed_sql_attempts) <= max_attempts

\* C6: a generated statement that is not a single SELECT is never passed to
\* the query tool, and its rejection adds one record to the attempt history
C6_NonSelectRejected ==
    [][(/\ qaPc = "execute"
        /\ qaAction.action_type = "call_mcp_tool"
        /\ ~IsSingleSelect(qaAction.query))
       => (/\ toolCalls' = toolCalls
           /\ Len(memory'.failed_sql_attempts)
                = Len(memory.failed_sql_attempts) + 1)]_vars

\* C24: an execution the tool server reported as failed is classified as
\* failed: an attempt record is appended, the failure is recorded in the
\* knowledge base, and no success result is returned for it
C24_ReportedFailureIsClassifiedFailed ==
    (lastExec.class # "none" /\ lastExec.reported) =>
        /\ lastExec.class = "failed"
        /\ lastExec.learned = "failure"
        /\ Len(memory.failed_sql_attempts) = Len(lastExec.before) + 1
        /\ qaResponse.kind # "data"

\* C25: when the first execution of a question failed on a missing column X
\* the context of the second generation holds a lesson naming X, and when
\* the second execution then succeeds the answer is returned with an empty
\* attempt history
C25_SecondPromptNamesMissingColumn ==
    /\ (/\ toolCalls = 1
        /\ failsThisQuestion = 1
        /\ lastExec.class = "failed"
        /\ ParseMissingColumn(lastExec.error).matched
        /\ qaPc = "execute")
           => ColumnLesson(ParseMissingColumn(lastExec.error).missing_column)
                  \in genLessons
    /\ (/\ toolCalls = 2
        /\ failsThisQuestion = 1
        /\ lastExec.class = "ok")
           => /\ qaResponse.kind = "data"
              /\ memory.failed_sql_attempts = <<>>

C25_Witness ==
    /\ toolCalls = 2
    /\ failsThisQuestion = 1
    /\ lastExec.class = "ok"
    /\ Len(lastExec.before) = 1
    /\ lastExec.before[1].error = AliasFooError
    /\ ColumnLesson("foo") \in genLessons
    /\ qaResponse.kind = "data"
    /\ memory.failed_sql_attempts = <<>>

\* ----------------------------------------------- Orchestrator properties
IsPrefix(s, t) == Len(s) <= Len(t) /\ SubSeq(t, 1, Len(s)) = s
SubQuestionsOf(steps) == [i \in 1..Len(steps) |-> steps[i].sub_question]

\* C7: plan steps are delegated strictly in plan order: the delegated
\* sub-questions are a prefix of the plan (none twice, none jumped over) and a
\* step is delegated only when every earlier step's result is recorded
C7_StepsInPlanOrder ==
    /\ generatedPlan.is_none => delegated = <<>>
    /\ ~generatedPlan.is_none => IsPrefix(delegated, generatedPlan.steps)
    /\ SubQuestionsOf(world_model.executed_steps)
         = SubSeq(delegated, 1, Len(world_model.executed_steps))
    /\ orchPc = "awaiting" =>
         Len(world_model.executed_steps) = Len(delegated) - 1
    /\ orchPc = "loop" => Len(world_model.executed_steps) = Len(delegated)

C7_Witness ==
    /\ orchPc = "awaiting"
    /\ delegated = <<"A", "B">>
    /\ Len(world_model.executed_steps) = 1

\* C8: a delegated step that comes back as an error ends process_query at
\* once with that error: nothing more is delegated, the failed step is not
\* recorded and no synthesis call is made
C8_StepErrorFailsImmediately ==
    lastReply.kind \notin {"none", "success"} =>
        /\ orchPc = "idle"
        /\ orchResult.kind = "failure"
        /\ ~orchResult.success
        /\ lastReply.kind \in {"error_payload", "jsonrpc_error"} =>
             orchResult.error[2] = lastReply.error
        /\ Len(world_model.executed_steps) = Len(delegated) - 1
        /\ synthCalls = 0

C8_Witness ==
    /\ lastReply.kind = "error_payload"
    /\ Len(delegated) = 2
    /\ Len(generatedPlan.steps) = 3
    /\ orchResult.error = <<"", "e2">>

\* C9: process_query terminates: it never starts more than max_loops
\* iterations and every started question ends with a final answer or a
\* failure result
C9_ProcessQueryTerminates ==
    /\ [](loop_i <= max_loops)
    /\ (orchPc # "idle") ~>
         (orchPc = "idle" /\ orchResult.kind \in {"final_answer", "failure"})

C9_Witness ==
    /\ orchPc = "idle"
    /\ loop_i = max_loops
    /\ orchResult.error[1] = "Agent exceeded maximum execution loops."

\* C10: the synthesis Generate is called at most once per question, only
\* with the plan empty and a step executed, and over exactly the executed
\* steps, which are the whole plan in plan order
C10_SynthesisOnceOverExecutedSteps ==
    /\ synthCalls <= 1
    /\ synthCalls = 1 =>
         /\ ~world_model.plan.is_none
         /\ world_model.plan.steps = <<>>
         /\ Len(synthInput) >= 1
         /\ synthInput = world_model.executed_steps
         /\ SubQuestionsOf(synthInput) = generatedPlan.steps

C10_Witness ==
    /\ synthCalls = 1
    /\ orchResult.kind = "final_answer"
    /\ SubQuestionsOf(synthInput) = <<"B", "A">>
    /\ synthInput[1].result # synthInput[2].result

\* C11: a planner response without a valid JSON array of strings fails the
\* question with the plan-generation error: the planning Generate was called
\* exactly once, no plan is stored and nothing is delegated
C11_PlanParseFailureIsFatal ==
    plannerReply \in {"no_array", "bad_json", "not_strings"} =>
        /\ orchPc = "idle"
        /\ orchResult = Failure("Failed to generate a valid plan.", "")
        /\ planCalls = 1
        /\ world_model.plan.is_none
        /\ orchMemory.plan.is_none
        /\ delegated = <<>>

C11_Witness ==
    /\ plannerReply = "not_strings"
    /\ orchResult.kind = "failure"
    /\ planCalls = 1

\* C12: every failed question makes ask_single_question return a value with
\* success false and an error text, never an exception; a returned value with
\* success true carries no error field
C12_FailedQuestionYieldsErrorValue ==
    /\ (orchPc = "idle" /\ orchResult.kind # "none") =>
          askResult.kind = "returned"
    /\ (orchPc = "idle" /\ orchResult.kind = "failure") =>
          /\ askResult.success = FALSE
          /\ askResult.has_error
          /\ askResult.error # <<"", "">>
    /\ (askResult.kind = "returned" /\ askResult.success) =>
          ~askResult.has_error

C12_Witness ==
    /\ askResult.kind = "returned"
    /\ ~askResult.success
    /\ askResult.error[1] = "Orchestrator is in an inconsistent state."

\* ---------------------------------------------------------- MCP properties
\* the server has a stored client whose session is open
Connected(s) == clients[s].present /\ clients[s].session = "open"

\* C13: call_tool with an id that has no ':' fails with the malformed-id
\* error; no client's call_tool is invoked and no request is sent
C13_MalformedIdRejected ==
    (lastCall.status # "none" /\ Len(lastCall.id) = 1) =>
        /\ lastCall.status = "failed"
        /\ lastCall.error = "invalid_tool_id"
        /\ lastCall.delegations = 0
        /\ lastCall.sent = 0

C13_Witness ==
    /\ lastCall.id = <<"omop_db_server">>
    /\ lastCall.status = "failed"
    /\ Connected("omop_db_server")

\* C14: an id with a ':' is split at the first one; the call fails with the
\* server-not-connected error, delegating nothing, whenever the server part
\* has no connected client, and otherwise delegates exactly once with the
\* tool name and the arguments
C14_ServerPortionDecides ==
    (lastCall.status # "none" /\ Len(lastCall.id) >= 2) =>
        IF lastCall.connected
        THEN /\ lastCall.delegations = 1
             /\ lastCall.tool = Tail(lastCall.id)
             /\ lastCall.passed = lastCall.args
        ELSE /\ lastCall.status = "failed"
             /\ lastCall.error = "server_not_connected"
             /\ lastCall.delegations = 0

\* C15: between manager operations available_tools holds no id whose server
\* has no connected client (the ids, being keys, are never duplicated)
C15_RegistryOnlyConnectedServers ==
    mgrOp = "idle" =>
        \A id \in available_tools :
            /\ id[1] \in ServerNames
            /\ Connected(id[1])

\* C16: _connect_all attempts every server whatever the others do: when it
\* is over every server has a result, the servers whose connection succeeded
\* are connected with their tools registered, and the call did not raise
C16_ConnectAllIsolatesFailures ==
    (mgrOp = "idle" /\ lastOp.op = "connect_all") =>
        /\ ~lastOp.raised
        /\ \A s \in servers : lastOp.results[s] \in {"done", "failed"}
        /\ \A s \in ServerNames :
               lastOp.results[s] = "done" =>
                   /\ Connected(s)
                   /\ clients[s].tools # {}
                   /\ \A t \in clients[s].tools :
                          (<<s>> \o t) \in available_tools

C16_Witness ==
    /\ mgrOp = "idle"
    /\ lastOp.op = "connect_all"
    /\ lastOp.results["omop_db_server"] = "failed"
    /\ lastOp.results["aux"] = "done"

\* C17: MCPClient.connect fails atomically: when the handshake or the tool
\* discovery fails the client is left disconnected, session None and no tools
C17_ConnectFailsAtomically ==
    lastConnect.outcome \in {"init_fail", "discover_fail"} =>
        /\ lastConnect.raised
        /\ lastConnect.client.session = "none"
        /\ lastConnect.client.tools = {}

\* C18: between manager operations the number of live tool-server
\* subprocesses equals the number of open sessions
C18_ProcessesMatchSessions ==
    mgrOp = "idle" => live_processes = open_sessions

\* C19: disconnect never raises, leaves the client with no session and no
\* tools, and on a client already disconnected changes nothing
C19_DisconnectSucceedsIdempotent ==
    lastDisconnect.server # "" =>
        /\ ~lastDisconnect.raised
        /\ lastDisconnect.after.session = "none"
        /\ lastDisconnect.after.tools = {}
        /\ lastDisconnect.before.session = "none" =>
               lastDisconnect.after = lastDisconnect.before

C19_Witness ==
    /\ lastDisconnect.server # ""
    /\ lastDisconnect.before.present
    /\ lastDisconnect.before.session = "none"
    /\ lastDisconnect.after = lastDisconnect.before

\* C20: a tool request does not hang: a request whose server has stayed
\* silent for MaxWait is no longer pending, it has failed with a timeout
C20_SilentServerTimesOut ==
    ~(lastCall.status = "in_flight" /\ waited = MaxWait)

\* ----------------------------------------------- knowledge base properties
\* the table an error text's table name stands for
OwningTable(table_alias) == IF table_alias = "c" THEN "concept" ELSE table_alias

\* the columns a discovery result lists for a table
ColumnsOfResult(rows, t) ==
    { rows[i].column_name : i \in { j \in 1..Len(rows) : rows[j].table_name = t } }

\* C22: a table's confirmed-missing-columns set only grows: no recorded
\* outcome, discovery or context building removes a column from it
C22_MissingColumnsOnlyGrow ==
    [][\A t \in KbTables :
           omop_tables[t].confirmed_missing_columns
               \subseteq omop_tables'[t].confirmed_missing_columns]_vars

C22_Witness ==
    /\ lastDiscovery.kind = "table"
    /\ lastDiscovery.returned
    /\ \E i \in 1..Len(lastDiscovery.rows) :
           lastDiscovery.rows[i].table_name = "concept"
    /\ omop_tables["concept"].actual_columns = <<>>
    /\ "foo" \in omop_tables["concept"].confirmed_missing_columns

\* C23: once a failure saying a table has no column foo was recorded, every
\* context built for that table carries a lesson naming foo, and the table's
\* confirmed-missing set keeps foo whatever is recorded afterwards
C23_MissingColumnRoundTrip ==
    \A r \in reported :
        /\ (/\ lastContext.kind = "built"
            /\ \E i \in 1..Len(lastContext.tables) :
                   lastContext.tables[i].name = OwningTable(r[1]))
               => \E j \in 1..Len(lastContext.lessons) :
                      lastContext.lessons[j] = ColumnLesson(r[2])
        /\ r[2] \in omop_tables[OwningTable(r[1])].confirmed_missing_columns

\* C26: a recorded failure naming a table and a missing column adds the
\* column to that table's confirmed-missing set and to no other table's
C26_OnlyOwningTableLearns ==
    [][(/\ lastOutcome'.kind = "recorded"
        /\ ~lastOutcome'.success
        /\ ParseMissingColumn(lastOutcome'.error).matched)
       => LET m == ParseMissingColumn(lastOutcome'.error) IN
          \A t \in KbTables :
              omop_tables'[t].confirmed_missing_columns =
                  IF t = OwningTable(m.table_alias)
                  THEN omop_tables[t].confirmed_missing_columns
                           \cup {m.missing_column}
                  ELSE omop_tables[t].confirmed_missing_columns]_vars

\* C27: a template changes exactly in a recorded success whose SQL matches
\* it, by one use and one appended example; failures, discovery, context
\* building and successes that do not match leave it as it was
C27_TemplatesChangeOnMatchingSuccess ==
    [][\A n \in TemplateNames :
           IF /\ lastOutcome'.kind = "recorded"
              /\ lastOutcome'.success
              /\ SqlMatchesTemplate(lastOutcome'.sql, n)
           THEN /\ query_templates'[n].usage_count =
                       query_templates[n].usage_count + 1
                /\ query_templates'[n].examples =
                       Append(query_templates[n].examples, lastOutcome'.sql)
           ELSE query_templates'[n] = query_templates[n]]_vars

C27_Witness ==
    /\ lastOutcome.kind = "recorded"
    /\ lastOutcome.success
    /\ SqlMatchesTemplate(lastOutcome.sql, "average_patient_age")
    /\ ~SqlMatchesTemplate(lastOutcome.sql, "count_patients_with_condition")
    /\ query_templates["average_patient_age"].usage_count = 2
    /\ query_templates["count_patients_with_condition"].usage_count = 1

\* C28: discovery never raises; when the discovery query raises, returns an
\* error or something unparsable it reports failure and every table's
\* discovered columns are as before; when it returns a table, it reports
\* success and each table of the result holds exactly the result's columns
C28_DiscoveryFailsSoft ==
    [][lastDiscovery'.kind # "none" =>
           /\ ~lastDiscovery'.raised
           /\ lastDiscovery'.kind # "table" =>
                  /\ ~lastDiscovery'.returned
                  /\ \A t \in KbTables :
                         omop_tables'[t].actual_columns =
                             omop_tables[t].actual_columns
           /\ lastDiscovery'.kind = "table" =>
                  /\ lastDiscovery'.returned
                  /\ \A t \in KbTables :
                         LET cols == omop_tables'[t].actual_columns IN
                         IF ColumnsOfResult(lastDiscovery'.rows, t) # {}
                         THEN { cols[i].column_name : i \in 1..Len(cols) } =
                                  ColumnsOfResult(lastDiscovery'.rows, t)
                         ELSE cols = omop_tables[t].actual_columns]_vars

C21_OneRequestInFlightPerSession ==
    \A s \in ServerNames : InFlight(s) <= 1

\* C30: tool discovery replaces: after a successful connect the client's
\* tools are exactly the tools listed, and once the registry is updated the
\* server's tool ids are exactly those of the tools listed
C30_DiscoveryReplacesTools ==
    lastConnect.outcome = "ok" =>
        /\ lastConnect.client.tools = lastConnect.listed
        /\ clients[lastConnect.server] = lastConnect.client =>
               { id \in available_tools : id[1] = lastConnect.server } =
                   { <<lastConnect.server>> \o t : t \in lastConnect.listed }

C30_Witness ==
    /\ lastConnect.outcome = "ok"
    /\ lastConnect.listed = {<<"Select_Query">>}
    /\ clients[lastConnect.server] = lastConnect.client
    /\ lastDisconnect.server = lastConnect.server
    /\ lastDisconnect.before.tools = ToolNames
    /\ <<lastConnect.server, "ns", "tool">> \notin available_tools

C33_CallReconnects ==
    ( /\ lastAgentCall.kind = "call"
      /\ lastAgentCall.configured
      /\ ~lastAgentCall.connected_before \/ lastAgentCall.lost_before ) =>
        lastAgentCall.connect_attempted

\* C39: a tool call through the agent launches no new subprocess for a
\* server that is connected when the call is made
C39_NoRelaunchOfConnected ==
    lastAgentCall.kind = "call" => lastAgentCall.relaunched = {}

\* C32: when call_mcp_tool raises (unknown tool, malformed id, server not
\* connected), the question ends at once with the tool-call failure: no
\* attempt record is appended, nothing is generated or executed afterwards
C32_UsageErrorEndsQuestion ==
    lastExec.kind = "raise" =>
        /\ lastExec.class = "raised"
        /\ qaPc = "idle"
        /\ qaAction = NoAction
        /\ qaResponse.kind = "tool_call_failed"
        /\ memory.failed_sql_attempts = lastExec.before
        /\ lastExec.learned = "none"

C32_Witness ==
    /\ lastExec.kind = "raise"
    /\ Len(lastExec.before) = 1
    /\ toolCalls = 2
    /\ failsThisQuestion = 1
    /\ qaResponse.kind = "tool_call_failed"

\* C37: a message from which no question can be decoded is answered with an
\* error: nothing is generated and no tool is called for it
C37_UndecodableNeverExecutes ==
    lastMsg = "undecodable" =>
        /\ toolCalls = 0
        /\ genHistory = <<>>
        /\ qaAction.action_type # "call_mcp_tool"
        /\ qaPc = "idle" => qaResponse.kind = "unknown_action"

\* C34: plan conservation: once a plan has been generated, the sub-questions
\* recorded in executed_steps followed by the steps still pending are the
\* generated plan, in the world model and in the memory, and every recorded
\* sub-question is the one that was delegated for it
C34_PlanConservation ==
    ~generatedPlan.is_none =>
        /\ ~world_model.plan.is_none
        /\ SubQuestionsOf(world_model.executed_steps) \o world_model.plan.steps
             = generatedPlan.steps
        /\ orchMemory.plan = world_model.plan
        /\ orchMemory.executed_steps = world_model.executed_steps
        /\ \A i \in 1..Len(world_model.executed_steps) :
             /\ i <= Len(delegated)
             /\ world_model.executed_steps[i].sub_question = delegated[i]

C34_Witness ==
    /\ generatedPlan.steps = <<"A", "B", "B">>
    /\ SubQuestionsOf(world_model.executed_steps) = <<"A", "B">>
    /\ world_model.plan.steps = <<"B">>
    /\ orchPc = "awaiting"

\* C35: when process_query has returned after a valid plan of n >= 1
\* sub-questions, every delegated step succeeded and no Generate call
\* raised, it has returned the final answer with all n steps executed
C35_ValidPlanReachesFinalAnswer ==
    ( /\ orchPc = "idle"
      /\ orchResult.kind # "none"
      /\ ~generatedPlan.is_none
      /\ Len(generatedPlan.steps) >= 1
      /\ lastReply.kind \in {"none", "success"}
      /\ orchResult.error[1] # "An internal agent error occurred: " ) =>
        /\ orchResult = FinalAnswer
        /\ orchResult.success
        /\ Len(world_model.executed_steps) = Len(generatedPlan.steps)

\* C36: every process_query starts clean: whatever the previous question
\* left behind, the loop starts with no plan and no executed steps, a plan is
\* generated before anything is delegated, and the synthesis is given the
\* results of this question's delegated steps only
C36_EachQuestionStartsClean ==
    /\ (orchPc = "loop" /\ loop_i = 0) =>
           /\ world_model.plan.is_none
           /\ world_model.executed_steps = <<>>
           /\ orchMemory.plan.is_none
           /\ orchMemory.executed_steps = <<>>
    /\ delegated # <<>> => planCalls = 1
    /\ synthCalls > 0 =>
           /\ planCalls = 1
           /\ SubQuestionsOf(synthInput) = delegated

C36_Witness ==
    /\ leftOver
    /\ orchPc = "idle"
    /\ orchResult = FinalAnswer
    /\ synthCalls = 1
    /\ SubQuestionsOf(synthInput) = <<"A", "B">>

\* C38: two questions handled concurrently by one QueryAgent do not mix:
\* the SQL a request executes is generated from its own question and from
\* attempt records of its own executions only, and a request that gives up
\* has made max_attempts executions itself
C38_ConcurrentRequestsIsolated ==
    \A r \in RequestIds :
        /\ requests[r].pc = "awaiting_tool" =>
             /\ requests[r].gen_question = requests[r].question
             /\ \A i \in 1..Len(requests[r].gen_owners) :
                  requests[r].gen_owners[i] = r
        /\ requests[r].response = "data" =>
             requests[r].gen_question = requests[r].question
        /\ requests[r].response = "max_attempts" =>
             requests[r].executions = max_attempts

====
